---- MODULE Spec2Model ----
(***************************************************************************)
(* The personal workspace provider of the new-workspace service: the       *)
(* collection tree it edits, the request-handle registry (issuedHandles)   *)
(* it keeps, and the handles it returns.  Collection and request IDs are   *)
(* slash-joined index paths; they are modelled as the strings they are,    *)
(* a string being a sequence of one-character strings.                     *)
(***************************************************************************)
EXTENDS Integers, Sequences, FiniteSets, TLC

VARIABLES
  state,              \* restCollectionState.value.state: the root collections
  handleRefData,      \* every handleRefData ref made by createRESTRequest / getRequestHandle
  issuedHandles,      \* this.issuedHandles: the registered refs, as indices into handleRefData
  collectionHandles,  \* the collection handles returned so far that a caller still holds
  result,             \* the last call that did not return a Left: operation, arguments, return
  steps,              \* the number of these calls
  workspaceRef,       \* the value of the workspace handle (a shallowRef) its holder keeps
  derived             \* the computed handles returned to that holder, each with its parent

vars == <<state, handleRefData, issuedHandles, collectionHandles, result, steps,
          workspaceRef, derived>>

\* ------------------------------------------------------------------ bounds

MaxCollections == 2   \* collections in the tree
MaxRequests == 3      \* requests in the tree
MaxDepth == 2         \* nesting of collections
MaxRefs == 2          \* handleRefData refs ever made
MaxCollHandles == 1   \* collection handles a caller holds at once
MaxSteps == 5         \* calls that do not return a Left
MaxDerived == 3       \* computed handles the holder of the workspace handle keeps
MaxMoveRequests == 4  \* requests of the collection that requests are moved out of
MaxViewDepth == 3     \* collections on the path a view walks

\* ------------------------------------------------------ strings and arrays

Digits == <<"0", "1", "2", "3", "4", "5", "6", "7", "8", "9">>

\* NaN, as a number no index arithmetic of the model reaches
NaN == -1000

DigitValue(c) == CHOOSE d \in 0..9 : Digits[d + 1] = c

IsDigit(c) == \E d \in 0..9 : Digits[d + 1] = c

\* Number.prototype.toString of a non-negative integer
RECURSIVE toString(_)
toString(n) ==
  IF n = NaN THEN <<"N", "a", "N">>
  ELSE IF n < 0 THEN <<"-">> \o toString(0 - n)
  ELSE IF n < 10 THEN <<Digits[n + 1]>>
  ELSE toString(n \div 10) \o <<Digits[(n % 10) + 1]>>

RECURSIVE ParseDigits(_, _)
ParseDigits(s, acc) ==
  IF s = <<>> \/ ~IsDigit(Head(s)) THEN acc
  ELSE ParseDigits(Tail(s), acc * 10 + DigitValue(Head(s)))

\* parseInt: an optional sign and the leading decimal digits, NaN when there are none
parseInt(s) ==
  IF s # <<>> /\ Head(s) = "-"
  THEN IF Tail(s) = <<>> \/ ~IsDigit(Head(Tail(s))) THEN NaN
       ELSE 0 - ParseDigits(Tail(s), 0)
  ELSE IF s = <<>> \/ ~IsDigit(Head(s)) THEN NaN ELSE ParseDigits(s, 0)

\* Number(string): 0 for the empty string, NaN unless the whole string is a number
Number(s) ==
  LET digits == IF s # <<>> /\ Head(s) = "-" THEN Tail(s) ELSE s
  IN  IF s = <<>> THEN 0
      ELSE IF digits = <<>> \/ \E k \in DOMAIN digits : ~IsDigit(digits[k]) THEN NaN
      ELSE parseInt(s)

\* String.prototype.split("/")
RECURSIVE SplitFrom(_, _)
SplitFrom(s, cur) ==
  IF s = <<>> THEN <<cur>>
  ELSE IF Head(s) = "/" THEN <<cur>> \o SplitFrom(Tail(s), <<>>)
  ELSE SplitFrom(Tail(s), Append(cur, Head(s)))

split(s) == SplitFrom(s, <<>>)

\* Array.prototype.join("/")
RECURSIVE join(_)
join(parts) ==
  IF parts = <<>> THEN <<>>
  ELSE IF Len(parts) = 1 THEN parts[1]
  ELSE parts[1] \o <<"/">> \o join(Tail(parts))

startsWith(s, prefix) ==
  Len(prefix) <= Len(s) /\ SubSeq(s, 1, Len(prefix)) = prefix

\* Array.prototype.slice(0, -1) and slice(-1)[0]
sliceInit(a) == IF a = <<>> THEN <<>> ELSE SubSeq(a, 1, Len(a) - 1)

sliceLast(a) == IF a = <<>> THEN <<>> ELSE a[Len(a)]

\* `${collectionID}/${index}`
childID(collectionID, index) == collectionID \o <<"/">> \o toString(index)

\* collectionID.split("/").map((x) => parseInt(x))
RECURSIVE mapParseInt(_)
mapParseInt(parts) ==
  IF parts = <<>> THEN <<>> ELSE <<parseInt(Head(parts))>> \o mapParseInt(Tail(parts))

indexPathOf(id) == mapParseInt(split(id))

\* pathArr[pathArr.length - 1] parsed
pathToLastIndex(path) == parseInt(sliceLast(split(path)))

\* the start of array.splice: NaN is 0, a negative start counts from the end, and
\* the result is clamped to the array
spliceStart(a, i) ==
  LET n == IF i = NaN THEN 0 ELSE i
      k == IF n < 0 THEN Len(a) + n ELSE n
  IN  IF k < 0 THEN 0 ELSE IF k > Len(a) THEN Len(a) ELSE k

\* what is left of the array after array.splice(i, 1)
spliceOut(a, i) ==
  LET k == spliceStart(a, i)
  IN  SubSeq(a, 1, k) \o SubSeq(a, k + 2, Len(a))

\* array.splice(i, 1)[0]
spliced(a, i) ==
  LET k == spliceStart(a, i)
  IN  IF k < Len(a) THEN a[k + 1] ELSE [undefined |-> TRUE]

\* array.splice(i, 0, item)
spliceIn(a, i, item) ==
  LET k == spliceStart(a, i)
  IN  SubSeq(a, 1, k) \o <<item>> \o SubSeq(a, k + 1, Len(a))

InRange(a, i) == i \in 0..(Len(a) - 1)

\* ------------------------------------------- the collection tree (the store)

\* A collection is [uid, name, folders, requests] and a request [uid, name]; uid
\* stands for the identity of the object, which the code never reads.
Null == [null |-> TRUE]

Undefined == [undefined |-> TRUE]

\* array[i] of a JavaScript array
at(a, i) == IF InRange(a, i) THEN a[i + 1] ELSE Undefined

RECURSIVE navigateFrom(_, _)
navigateFrom(target, indexPaths) ==
  IF indexPaths = <<>> THEN target
  ELSE IF target = Undefined THEN Undefined
  ELSE navigateFrom(at(target.folders, Head(indexPaths)), Tail(indexPaths))

navigateToFolderWithIndexPath(collections, indexPaths) ==
  IF indexPaths = <<>> THEN Null
  ELSE LET target == navigateFrom(at(collections, Head(indexPaths)), Tail(indexPaths))
       IN  IF target = Undefined THEN Null ELSE target

\* The tree with the collection at an index path that resolves replaced by coll
RECURSIVE replaceAt(_, _, _)
replaceAt(collections, indexPaths, coll) ==
  IF Len(indexPaths) = 1
  THEN [collections EXCEPT ![Head(indexPaths) + 1] = coll]
  ELSE [collections EXCEPT ![Head(indexPaths) + 1].folders =
          replaceAt(@, Tail(indexPaths), coll)]

\* The helpers walk the path from the root collection and keep the deepest folder
\* found; they throw a TypeError (pathThrows) when the root collection is missing.
Throws == [tag |-> "throw"]

RECURSIVE walkFolders(_, _)
walkFolders(current, rest) ==
  IF rest = <<>> THEN current
  ELSE LET folder == at(current.folders, Head(rest))
       IN  walkFolders(IF folder = Undefined THEN current ELSE folder, Tail(rest))

pathThrows(collections, path) ==
  at(collections, Head(indexPathOf(path))) = Undefined

getRequestsByPath(collections, path) ==
  LET pathArray == indexPathOf(path)
  IN  walkFolders(at(collections, Head(pathArray)), Tail(pathArray)).requests

getFoldersByPath(collections, path) ==
  IF path = <<>> THEN collections
  ELSE LET pathArray == indexPathOf(path)
       IN  walkFolders(at(collections, Head(pathArray)), Tail(pathArray)).folders

makeCollection(uid, name) ==
  [uid |-> uid, name |-> name, folders |-> <<>>, requests |-> <<>>]

addRESTCollection(collections, coll) == Append(collections, coll)

appendRESTCollections(collections, entries) == collections \o entries

\* state.filter((_, i) => i !== collectionIndex)
storeRemoveRESTCollection(collections, collectionIndex) ==
  IF InRange(collections, collectionIndex) THEN spliceOut(collections, collectionIndex)
  ELSE collections

addRESTFolder(collections, folder, path) ==
  LET target == navigateToFolderWithIndexPath(collections, indexPathOf(path))
  IN  IF target = Null THEN collections
      ELSE replaceAt(collections, indexPathOf(path),
                     [target EXCEPT !.folders = Append(@, folder)])

removeRESTFolder(collections, path) ==
  LET indexPaths == indexPathOf(path)
      folderIndex == sliceLast(indexPaths)
      containing == navigateToFolderWithIndexPath(collections, sliceInit(indexPaths))
  IN  IF containing = Null THEN collections
      ELSE replaceAt(collections, sliceInit(indexPaths),
                     [containing EXCEPT !.folders = spliceOut(@, folderIndex)])

editRESTCollection(collections, collectionIndex, coll) ==
  IF InRange(collections, collectionIndex)
  THEN [collections EXCEPT ![collectionIndex + 1] = coll]
  ELSE collections

editRESTFolder(collections, path, coll) ==
  IF navigateToFolderWithIndexPath(collections, indexPathOf(path)) = Null
  THEN collections
  ELSE replaceAt(collections, indexPathOf(path), coll)

storeSaveRequestAs(collections, path, request) ==
  LET target == navigateToFolderWithIndexPath(collections, indexPathOf(path))
  IN  IF target = Null THEN collections
      ELSE replaceAt(collections, indexPathOf(path),
                     [target EXCEPT !.requests = Append(@, request)])

storeRemoveRESTRequest(collections, path, requestIndex) ==
  LET target == navigateToFolderWithIndexPath(collections, indexPathOf(path))
  IN  IF target = Null THEN collections
      ELSE replaceAt(collections, indexPathOf(path),
                     [target EXCEPT !.requests = spliceOut(@, requestIndex)])

editRESTRequest(collections, path, requestIndex, request) ==
  LET target == navigateToFolderWithIndexPath(collections, indexPathOf(path))
  IN  IF target = Null \/ ~InRange(target.requests, requestIndex) THEN collections
      ELSE replaceAt(collections, indexPathOf(path),
                     [target EXCEPT !.requests[requestIndex + 1] = request])

\* push the request onto the destination, then splice it out of the source
storeMoveRESTRequest(collections, path, requestIndex, destinationPath) ==
  LET target == navigateToFolderWithIndexPath(collections, indexPathOf(path))
      dest == navigateToFolderWithIndexPath(collections, indexPathOf(destinationPath))
  IN  IF target = Null \/ dest = Null THEN collections
      ELSE LET req == at(target.requests, requestIndex)
               pushed == replaceAt(collections, indexPathOf(destinationPath),
                                   [dest EXCEPT !.requests = Append(@, req)])
               source == navigateToFolderWithIndexPath(pushed, indexPathOf(path))
           IN  replaceAt(pushed, indexPathOf(path),
                         [source EXCEPT !.requests = spliceOut(@, requestIndex)])

reorderItems(a, from, to) ==
  LET item == spliced(a, from)
      rest == spliceOut(a, from)
  IN  IF from < to THEN spliceIn(rest, to - 1, item) ELSE spliceIn(rest, to, item)

\* destination NaN stands for null: move to the end of the list
moveToEnd(a, from) == Append(spliceOut(a, from), spliced(a, from))

updateRESTRequestOrder(collections, requestIndex, destinationRequestIndex, destinationPath) ==
  LET target == navigateToFolderWithIndexPath(collections, indexPathOf(destinationPath))
  IN  IF target = Null THEN collections
      ELSE replaceAt(collections, indexPathOf(destinationPath),
             [target EXCEPT !.requests =
                IF destinationRequestIndex = NaN THEN moveToEnd(@, requestIndex)
                ELSE reorderItems(@, requestIndex, destinationRequestIndex)])

updateRESTCollectionOrder(collections, collectionIndex, destinationCollectionIndex) ==
  LET indexPaths == indexPathOf(collectionIndex)
      from == sliceLast(indexPaths)
      reordered(a) ==
        IF destinationCollectionIndex = <<>> THEN moveToEnd(a, from)
        ELSE reorderItems(a, from, pathToLastIndex(destinationCollectionIndex))
  IN  IF Len(indexPaths) = 1 THEN reordered(collections)
      ELSE LET parent == navigateToFolderWithIndexPath(collections, sliceInit(indexPaths))
           IN  IF parent = Null THEN collections
               ELSE replaceAt(collections, sliceInit(indexPaths),
                              [parent EXCEPT !.folders = reordered(@)])

\* destination <<>> stands for null: move the folder to the root
moveRESTFolder(collections, path, destinationPath) ==
  LET indexPaths == indexPathOf(path)
      target == navigateToFolderWithIndexPath(collections, indexPaths)
  IN  IF destinationPath = <<>>
      THEN LET containing ==
                 navigateToFolderWithIndexPath(collections, sliceInit(indexPaths))
           IN  IF containing = Null THEN collections
               ELSE Append(removeRESTFolder(collections, path),
                           spliced(containing.folders, sliceLast(indexPaths)))
      ELSE LET dest ==
                 navigateToFolderWithIndexPath(collections, indexPathOf(destinationPath))
           IN  IF target = Null \/ dest = Null THEN collections
               ELSE LET pushed == replaceAt(collections, indexPathOf(destinationPath),
                                            [dest EXCEPT !.folders = Append(@, target)])
                    IN  IF Len(indexPaths) = 1
                        THEN spliceOut(pushed, Head(indexPaths))
                        ELSE removeRESTFolder(pushed, path)


\* size of the tree, for the bounds
RECURSIVE countCollections(_)
countCollections(collections) ==
  IF collections = <<>> THEN 0
  ELSE (IF Head(collections) = Undefined THEN 1
        ELSE 1 + countCollections(Head(collections).folders))
       + countCollections(Tail(collections))

RECURSIVE countRequests(_)
countRequests(collections) ==
  IF collections = <<>> THEN 0
  ELSE (IF Head(collections) = Undefined THEN 0
        ELSE Len(Head(collections).requests) + countRequests(Head(collections).folders))
       + countRequests(Tail(collections))

RECURSIVE depthOf(_)
depthOf(collections) ==
  IF collections = <<>> THEN 0
  ELSE LET d == IF Head(collections) = Undefined THEN 1
                ELSE 1 + depthOf(Head(collections).folders)
           e == depthOf(Tail(collections))
       IN  IF d > e THEN d ELSE e

\* every index path that resolves to a collection, as an ID string
RECURSIVE collectionIDsUnder(_, _)
collectionIDsUnder(collections, prefix) ==
  UNION { LET id == IF prefix = <<>> THEN toString(i - 1) ELSE childID(prefix, i - 1)
          IN  IF collections[i] = Undefined THEN {}
              ELSE {id} \cup collectionIDsUnder(collections[i].folders, id)
          : i \in DOMAIN collections }

collectionIDs(collections) == collectionIDsUnder(collections, <<>>)

SeqToSet(a) == { a[i] : i \in DOMAIN a }

RECURSIVE uidsOf(_)
uidsOf(collections) ==
  UNION { IF collections[i] = Undefined THEN {}
          ELSE {collections[i].uid}
               \cup { r.uid : r \in SeqToSet(collections[i].requests) \ {Undefined} }
               \cup uidsOf(collections[i].folders)
          : i \in DOMAIN collections }


\* --------------------------------------------------------------- handles

providerID == "PERSONAL_WORKSPACE_PROVIDER"

Ok(data) == [type |-> "ok", data |-> data]

Invalid(reason) == [type |-> "invalid", reason |-> reason]

Left(value) == [tag |-> "Left", value |-> value]

Right(value) == [tag |-> "Right", value |-> value]

isValidWorkspaceHandle(workspace, provider, workspaceID) ==
  /\ workspace.type = "ok"
  /\ workspace.data.providerID = provider
  /\ workspace.data.workspaceID = workspaceID

\* a validation that does not look at the provider
isValidCollectionHandle_anyProvider(collection, provider, workspaceID) ==
  /\ collection.type = "ok"
  /\ collection.data.workspaceID = workspaceID

isValidCollectionHandle(collection, provider, workspaceID) ==
  /\ collection.type = "ok"
  /\ collection.data.providerID = provider
  /\ collection.data.workspaceID = workspaceID

\* a validation that does not look at the workspace
isValidRequestHandle_anyWorkspace(request, provider, workspaceID) ==
  /\ request.type = "ok"
  /\ request.data.providerID = provider

isValidRequestHandle(request, provider, workspaceID) ==
  /\ request.type = "ok"
  /\ request.data.providerID = provider
  /\ request.data.workspaceID = workspaceID

\* a personal workspace handle that names another workspace
getPersonalWorkspaceHandle_team ==
  Ok([providerID |-> providerID, workspaceID |-> "team",
      name |-> "Personal Workspace"])

getPersonalWorkspaceHandle ==
  Ok([providerID |-> providerID, workspaceID |-> "personal",
      name |-> "Personal Workspace"])

getWorkspaceHandle(workspaceID) ==
  IF workspaceID # "personal" THEN Left("INVALID_WORKSPACE_ID")
  ELSE Right(getPersonalWorkspaceHandle)

\* the handles a caller can pass: the provider's own, and handles that are
\* invalid or belong to another provider or workspace
CollectionNames == {"A"}

RequestNames == {"r"}

WorkspaceHandleInputs ==
  { getPersonalWorkspaceHandle,
    Invalid("WORKSPACE_INVALIDATED"),
    Ok([providerID |-> "OTHER_PROVIDER", workspaceID |-> "personal", name |-> "w"]),
    Ok([providerID |-> providerID, workspaceID |-> "team", name |-> "w"]) }

CollectionData(provider, workspaceID, collectionID, name) ==
  [providerID |-> provider, workspaceID |-> workspaceID,
   collectionID |-> collectionID, name |-> name]

RequestData(provider, workspaceID, collectionID, requestID, request) ==
  [providerID |-> provider, workspaceID |-> workspaceID,
   collectionID |-> collectionID, requestID |-> requestID, request |-> request]

ForeignCollectionHandles ==
  { Invalid("COLLECTION_INVALIDATED"),
    Ok(CollectionData("OTHER_PROVIDER", "personal", <<"0">>, "A")),
    Ok(CollectionData(providerID, "team", <<"0">>, "A")) }

ForeignRequestHandles ==
  { Invalid("REQUEST_INVALIDATED"),
    Ok(RequestData("OTHER_PROVIDER", "personal", <<"0">>, <<"0", "/", "0">>,
                   [uid |-> 0, name |-> "r"])),
    Ok(RequestData(providerID, "team", <<"0">>, <<"0", "/", "0">>,
                   [uid |-> 0, name |-> "r"])) }

CollectionHandleInputs == collectionHandles \cup ForeignCollectionHandles

\* ----------------------------------------------------- the handle registry

isIssued(i) == \E k \in DOMAIN issuedHandles : issuedHandles[k] = i

isRequestCell(value) == value.type = "ok" /\ "requestID" \in DOMAIN value.data

\* issuedHandles.findIndex of the first valid request handle with this requestID;
\* 0 stands for -1
findIssued(cells, issued, requestID) ==
  LET hits == { k \in DOMAIN issued :
                  isRequestCell(cells[issued[k]])
                  /\ cells[issued[k]].data.requestID = requestID }
  IN  IF hits = {} THEN 0 ELSE CHOOSE k \in hits : \A j \in hits : k <= j

handleIsAlreadyIssued(cells, issued, data) ==
  \E k \in DOMAIN issued :
    /\ isRequestCell(cells[issued[k]])
    /\ [f \in DOMAIN data \ {"request"} |-> cells[issued[k]].data[f]]
         = [f \in DOMAIN data \ {"request"} |-> data[f]]

cellUids(cells) ==
  { cells[i].data.request.uid : i \in { j \in DOMAIN cells : cells[j].type = "ok" } }

usedUids == uidsOf(state) \cup cellUids(handleRefData)

freshUid(used) ==
  CHOOSE n \in 1..(Cardinality(used) + 1) :
    n \notin used /\ \A m \in 1..(n - 1) : m \in used


\* ------------------------------------------------ the provider's operations

\* What a call leaves behind: the tree, the refs, the registry, and what it returns
Outcome(collections, cells, issued, ret) ==
  [state |-> collections, handleRefData |-> cells, issuedHandles |-> issued, ret |-> ret]

\* an early return: nothing is written
Returns(ret) == Outcome(state, handleRefData, issuedHandles, ret)

\* the issuedHandles loop of removeRESTCollection: every valid registered request
\* handle whose requestID starts with the collectionID is invalidated
invalidateUnder(cells, collectionID) ==
  [i \in DOMAIN cells |->
     IF isIssued(i) /\ isRequestCell(cells[i])
        /\ startsWith(cells[i].data.requestID, collectionID)
     THEN Invalid("REQUEST_INVALIDATED") ELSE cells[i]]

\* the issuedHandles loop of removeRESTRequest
invalidateRequest(cells, requestID) ==
  [i \in DOMAIN cells |->
     IF isIssued(i) /\ isRequestCell(cells[i]) /\ cells[i].data.requestID = requestID
     THEN Invalid("REQUEST_INVALIDATED") ELSE cells[i]]

\* createRESTRootCollection reading the length of the root list after the append
createRESTRootCollection_lengthAfter(workspaceHandle, name) ==
  IF ~isValidWorkspaceHandle(workspaceHandle, providerID, "personal")
  THEN Returns(Left("INVALID_WORKSPACE_HANDLE"))
  ELSE LET newState == addRESTCollection(state, makeCollection(freshUid(usedUids), name))
       IN  Outcome(newState, handleRefData, issuedHandles,
                   Right(Ok(CollectionData(providerID, workspaceHandle.data.workspaceID,
                                           toString(Len(newState)), name))))

createRESTRootCollection(workspaceHandle, name) ==
  IF ~isValidWorkspaceHandle(workspaceHandle, providerID, "personal")
  THEN Returns(Left("INVALID_WORKSPACE_HANDLE"))
  ELSE LET newCollectionID == toString(Len(state))
           handle == Ok(CollectionData(providerID, workspaceHandle.data.workspaceID,
                                       newCollectionID, name))
       IN  Outcome(addRESTCollection(state, makeCollection(freshUid(usedUids), name)),
                   handleRefData, issuedHandles, Right(handle))

createRESTChildCollection(parentCollectionHandle, name) ==
  IF ~isValidCollectionHandle(parentCollectionHandle, providerID, "personal")
  THEN Returns(Left("INVALID_COLLECTION_HANDLE"))
  ELSE LET data == parentCollectionHandle.data
           handle == Ok(CollectionData(data.providerID, data.workspaceID,
                                       data.collectionID, name))
       IN  Outcome(addRESTFolder(state, makeCollection(freshUid(usedUids), name),
                                 data.collectionID),
                   handleRefData, issuedHandles, Right(handle))

updateRESTCollection(collectionHandle, name) ==
  IF ~isValidCollectionHandle(collectionHandle, providerID, "personal")
  THEN Returns(Left("INVALID_COLLECTION_HANDLE"))
  ELSE LET collectionID == collectionHandle.data.collectionID
           collection == navigateToFolderWithIndexPath(state, indexPathOf(collectionID))
           newCollection == [collection EXCEPT !.name = name]
           isRootCollection == Len(split(collectionID)) = 1
       IN  Outcome(IF collection = Null THEN state
                   ELSE IF isRootCollection
                   THEN editRESTCollection(state, parseInt(collectionID), newCollection)
                   ELSE editRESTFolder(state, collectionID, newCollection),
                   handleRefData, issuedHandles, Right(Undefined))

removeRESTCollection(collectionHandle) ==
  IF ~isValidCollectionHandle(collectionHandle, providerID, "personal")
  THEN Returns(Left("INVALID_COLLECTION_HANDLE"))
  ELSE LET collectionID == collectionHandle.data.collectionID
           isRootCollection == Len(split(collectionID)) = 1
           collectionIndex == parseInt(collectionID)
           newState == IF isRootCollection
                       THEN storeRemoveRESTCollection(state, collectionIndex)
                       ELSE removeRESTFolder(state, collectionID)
           parentCollectionID == join(sliceInit(split(collectionID)))
           \* getFoldersByPath(state, parentCollectionID).length
           thrown == ~isRootCollection /\ pathThrows(newState, parentCollectionID)
       IN  Outcome(newState, invalidateUnder(handleRefData, collectionID), issuedHandles,
                   IF thrown THEN Throws ELSE Right(Undefined))

importRESTCollections(workspaceHandle, collections) ==
  IF ~isValidWorkspaceHandle(workspaceHandle, providerID, "personal")
  THEN Returns(Left("INVALID_WORKSPACE_HANDLE"))
  ELSE LET newState == appendRESTCollections(state, collections)
           newCollectionID == toString(Len(newState))
       IN  Outcome(newState, handleRefData, issuedHandles,
                   \* collections[0].name of an empty list throws
                   IF collections = <<>> THEN Throws
                   ELSE Right(Ok(CollectionData(providerID,
                                                workspaceHandle.data.workspaceID,
                                                newCollectionID, collections[1].name))))

reorderRESTCollection(collectionHandle, destinationCollectionID) ==
  IF ~isValidCollectionHandle(collectionHandle, providerID, "personal")
  THEN Returns(Left("INVALID_COLLECTION_HANDLE"))
  ELSE LET draggedCollectionIndex == collectionHandle.data.collectionID
       IN  Outcome(updateRESTCollectionOrder(state, draggedCollectionIndex,
                                             destinationCollectionID),
                   handleRefData, issuedHandles, Right(Undefined))

moveRESTCollection(collectionHandle, destinationCollectionID) ==
  IF ~isValidCollectionHandle(collectionHandle, providerID, "personal")
  THEN Returns(Left("INVALID_COLLECTION_HANDLE"))
  ELSE Outcome(moveRESTFolder(state, collectionHandle.data.collectionID,
                              destinationCollectionID),
               handleRefData, issuedHandles, Right(Undefined))

\* getCollectionHandle without its check of the empty collectionID
getCollectionHandle_noEmptyCheck(workspaceHandle, collectionID) ==
  LET collection == navigateToFolderWithIndexPath(state, indexPathOf(collectionID))
  IN  Returns(IF ~isValidWorkspaceHandle(workspaceHandle, providerID, "personal")
              THEN Left("INVALID_WORKSPACE_HANDLE")
              ELSE IF collection = Null THEN Left("COLLECTION_NOT_FOUND")
              ELSE Right(Ok(CollectionData(workspaceHandle.data.providerID,
                                           workspaceHandle.data.workspaceID,
                                           collectionID, collection.name))))

getCollectionHandle(workspaceHandle, collectionID) ==
  LET collection == navigateToFolderWithIndexPath(state, indexPathOf(collectionID))
  IN  Returns(IF ~isValidWorkspaceHandle(workspaceHandle, providerID, "personal")
              THEN Left("INVALID_WORKSPACE_HANDLE")
              ELSE IF collectionID = <<>> THEN Left("INVALID_COLLECTION_ID")
              ELSE IF collection = Null THEN Left("COLLECTION_NOT_FOUND")
              ELSE Right(Ok(CollectionData(workspaceHandle.data.providerID,
                                           workspaceHandle.data.workspaceID,
                                           collectionID, collection.name))))

\* a request handle: the handleRefData ref it reads (0 for a handle of another
\* origin) and the value it reads now
RefHandle(ref, value) == [ref |-> ref, value |-> value]

createRESTRequest(parentCollectionHandle, name) ==
  IF ~isValidCollectionHandle(parentCollectionHandle, providerID, "personal")
  THEN Returns(Left("INVALID_COLLECTION_HANDLE"))
  ELSE LET data == parentCollectionHandle.data
           collectionID == data.collectionID
           targetLocation == navigateToFolderWithIndexPath(state, indexPathOf(collectionID))
       IN  IF targetLocation = Null
           THEN \* saveRESTRequestAs reads targetLocation!.requests.length
                Returns(Throws)
           ELSE LET insertionIndex == Len(targetLocation.requests)
                    newRequest == [uid |-> freshUid(usedUids), name |-> name]
                    requestID == childID(collectionID, insertionIndex)
                    cell == Ok(RequestData(data.providerID, data.workspaceID,
                                           collectionID, requestID, newRequest))
                    ref == Len(handleRefData) + 1
                IN  Outcome(storeSaveRequestAs(state, collectionID, newRequest),
                            Append(handleRefData, cell),
                            IF handleIsAlreadyIssued(handleRefData, issuedHandles, cell.data)
                            THEN issuedHandles ELSE Append(issuedHandles, ref),
                            Right(RefHandle(ref, cell)))

removeRESTRequest(requestHandle) ==
  IF ~isValidRequestHandle(requestHandle.value, providerID, "personal")
  THEN Returns(Left("INVALID_REQUEST_HANDLE"))
  ELSE LET collectionID == requestHandle.value.data.collectionID
           requestID == requestHandle.value.data.requestID
           requestIndex == parseInt(sliceLast(split(requestID)))
           newState == storeRemoveRESTRequest(state, collectionID, requestIndex)
           \* getRequestsByPath(state, collectionID).length
           thrown == pathThrows(newState, collectionID)
       IN  Outcome(newState, invalidateRequest(handleRefData, requestID), issuedHandles,
                   IF thrown THEN Throws ELSE Right(Undefined))

\* updateRESTRequest whose loop skips no invalid handle: it writes the updated
\* value into every registered ref
updateRESTRequest_everyRegistered(requestHandle, name) ==
  IF ~isValidRequestHandle(requestHandle.value, providerID, "personal")
  THEN Returns(Left("INVALID_REQUEST_HANDLE"))
  ELSE LET data == requestHandle.value.data
           newRequest == [data.request EXCEPT !.name = name]
           requestIndex == parseInt(sliceLast(split(data.requestID)))
       IN  Outcome(editRESTRequest(state, data.collectionID, requestIndex, newRequest),
                   [i \in DOMAIN handleRefData |->
                      IF i = requestHandle.ref \/ isIssued(i)
                      THEN Ok([data EXCEPT !.request = newRequest])
                      ELSE handleRefData[i]],
                   issuedHandles, Right(Undefined))

\* updateRESTRequest whose loop does not compare the requestID: it renames the
\* request of every valid registered handle
updateRESTRequest_everyRequestID(requestHandle, name) ==
  IF ~isValidRequestHandle(requestHandle.value, providerID, "personal")
  THEN Returns(Left("INVALID_REQUEST_HANDLE"))
  ELSE LET data == requestHandle.value.data
           newRequest == [data.request EXCEPT !.name = name]
           requestIndex == parseInt(sliceLast(split(data.requestID)))
       IN  Outcome(editRESTRequest(state, data.collectionID, requestIndex, newRequest),
                   [i \in DOMAIN handleRefData |->
                      IF \/ i = requestHandle.ref
                         \/ isIssued(i) /\ isRequestCell(handleRefData[i])
                      THEN [handleRefData[i] EXCEPT !.data.request.name = newRequest.name]
                      ELSE handleRefData[i]],
                   issuedHandles, Right(Undefined))

updateRESTRequest(requestHandle, name) ==
  IF ~isValidRequestHandle(requestHandle.value, providerID, "personal")
  THEN Returns(Left("INVALID_REQUEST_HANDLE"))
  ELSE LET data == requestHandle.value.data
           \* merge(request, updatedRequest) writes into the handle's request object
           newRequest == [data.request EXCEPT !.name = name]
           requestIndex == parseInt(sliceLast(split(data.requestID)))
       IN  Outcome(editRESTRequest(state, data.collectionID, requestIndex, newRequest),
                   [i \in DOMAIN handleRefData |->
                      IF \/ i = requestHandle.ref
                         \/ /\ isIssued(i) /\ isRequestCell(handleRefData[i])
                            /\ handleRefData[i].data.requestID = data.requestID
                      THEN [handleRefData[i] EXCEPT !.data.request.name = newRequest.name]
                      ELSE handleRefData[i]],
                   issuedHandles, Right(Undefined))

reorderRESTRequest(requestHandle, destinationCollectionID, destinationRequestID) ==
  IF ~isValidRequestHandle(requestHandle.value, providerID, "personal")
  THEN Returns(Left("INVALID_REQUEST_HANDLE"))
  ELSE LET draggedRequestIndex == requestHandle.value.data.requestID
       IN  Outcome(updateRESTRequestOrder(state,
                     pathToLastIndex(draggedRequestIndex),
                     IF destinationRequestID # <<>>
                     THEN pathToLastIndex(destinationRequestID) ELSE NaN,
                     destinationCollectionID),
                   handleRefData, issuedHandles, Right(Undefined))

\* Array.from({ length }).map((_, idx) => `${sourceCollectionID}/${range + idx}`)
affectedRequestIDs(sourceCollectionID, affectedReqIndexRange) ==
  [idx \in 1..(IF affectedReqIndexRange > 0 THEN affectedReqIndexRange ELSE 0) |->
     childID(sourceCollectionID, affectedReqIndexRange + (idx - 1))]

\* affectedRequestIDs.forEach: the first valid registered handle with the ID gets
\* its index decremented
RECURSIVE decrementAffected(_, _, _, _)
decrementAffected(cells, issued, sourceCollectionID, ids) ==
  IF ids = <<>> THEN cells
  ELSE LET handleIdx == findIssued(cells, issued, Head(ids))
       IN  IF handleIdx = 0
           THEN decrementAffected(cells, issued, sourceCollectionID, Tail(ids))
           ELSE LET ref == issued[handleIdx]
                    reqIndexPos == Number(sliceLast(split(cells[ref].data.requestID)))
                IN  decrementAffected(
                      [cells EXCEPT ![ref].data.requestID =
                         childID(sourceCollectionID, reqIndexPos - 1)],
                      issued, sourceCollectionID, Tail(ids))

\* moveRESTRequest that moves the request also when no registered handle has
\* its requestID
moveRESTRequest_unregistered(requestHandle, destinationCollectionID) ==
  IF ~isValidRequestHandle(requestHandle.value, providerID, "personal")
  THEN Returns(Left("INVALID_REQUEST_HANDLE"))
  ELSE LET draggedRequestID == requestHandle.value.data.requestID
           sourceCollectionID == join(sliceInit(split(draggedRequestID)))
           draggedRequestIndexPos == pathToLastIndex(draggedRequestID)
       IN  IF pathThrows(state, sourceCollectionID)
           THEN Returns(Throws)
           ELSE Outcome(storeMoveRESTRequest(state, sourceCollectionID,
                                             draggedRequestIndexPos,
                                             destinationCollectionID),
                        handleRefData, issuedHandles, Right(Undefined))

moveRESTRequest(requestHandle, destinationCollectionID) ==
  IF ~isValidRequestHandle(requestHandle.value, providerID, "personal")
  THEN Returns(Left("INVALID_REQUEST_HANDLE"))
  ELSE LET draggedRequestID == requestHandle.value.data.requestID
           sourceCollectionID == join(sliceInit(split(draggedRequestID)))
           draggedRequestIndexPos == pathToLastIndex(draggedRequestID)
           movedRequestHandleIdx == findIssued(handleRefData, issuedHandles, draggedRequestID)
       IN  IF movedRequestHandleIdx = 0
           THEN Returns(Left("INVALID_REQUEST_HANDLE"))
           ELSE IF pathThrows(state, sourceCollectionID)
           THEN Returns(Throws)
           ELSE LET draggedCollectionReqCountBeforeMove ==
                      Len(getRequestsByPath(state, sourceCollectionID))
                    affectedReqIndexRange ==
                      draggedCollectionReqCountBeforeMove - 1 - draggedRequestIndexPos
                    ids == affectedRequestIDs(sourceCollectionID, affectedReqIndexRange)
                    newState == storeMoveRESTRequest(state, sourceCollectionID,
                                  draggedRequestIndexPos, destinationCollectionID)
                    destinationCollectionReqCount ==
                      Len(getRequestsByPath(newState, destinationCollectionID))
                    ref == issuedHandles[movedRequestHandleIdx]
                    moved == [handleRefData EXCEPT
                                ![ref].data.collectionID = destinationCollectionID,
                                ![ref].data.requestID =
                                  childID(destinationCollectionID,
                                          destinationCollectionReqCount - 1)]
                IN  IF pathThrows(newState, destinationCollectionID)
                    THEN Outcome(newState, handleRefData, issuedHandles, Throws)
                    ELSE Outcome(newState,
                                 decrementAffected(moved, issuedHandles,
                                                   sourceCollectionID, ids),
                                 issuedHandles, Right(Undefined))

\* getRequestHandle without its check of the last segment
getRequestHandle_noSegmentCheck(workspaceHandle, requestID) ==
  LET collectionID == join(sliceInit(split(requestID)))
      requestIndex == parseInt(sliceLast(split(requestID)))
      collection == navigateToFolderWithIndexPath(state, indexPathOf(collectionID))
      request == IF collection = Null THEN Undefined
                 ELSE at(collection.requests, requestIndex)
  IN  IF ~isValidWorkspaceHandle(workspaceHandle, providerID, "personal")
      THEN Returns(Left("INVALID_COLLECTION_HANDLE"))
      ELSE IF requestID = <<>> THEN Returns(Left("INVALID_REQUEST_ID"))
      ELSE IF request = Undefined THEN Returns(Left("REQUEST_NOT_FOUND"))
      ELSE LET cell == Ok(RequestData(workspaceHandle.data.providerID,
                                      workspaceHandle.data.workspaceID,
                                      collectionID, requestID, request))
               ref == Len(handleRefData) + 1
           IN  Outcome(state, Append(handleRefData, cell),
                       IF handleIsAlreadyIssued(handleRefData, issuedHandles, cell.data)
                       THEN issuedHandles ELSE Append(issuedHandles, ref),
                       Right(RefHandle(ref, cell)))

getRequestHandle(workspaceHandle, requestID) ==
  LET collectionID == join(sliceInit(split(requestID)))
      requestIndexPath == sliceLast(split(requestID))
      requestIndex == parseInt(requestIndexPath)
      collection == navigateToFolderWithIndexPath(state, indexPathOf(collectionID))
      request == IF collection = Null THEN Undefined
                 ELSE at(collection.requests, requestIndex)
  IN  IF ~isValidWorkspaceHandle(workspaceHandle, providerID, "personal")
      THEN Returns(Left("INVALID_COLLECTION_HANDLE"))
      ELSE IF requestID = <<>> THEN Returns(Left("INVALID_REQUEST_ID"))
      ELSE IF requestIndexPath = <<>> THEN Returns(Left("INVALID_REQUEST_ID"))
      ELSE IF request = Undefined THEN Returns(Left("REQUEST_NOT_FOUND"))
      ELSE LET cell == Ok(RequestData(workspaceHandle.data.providerID,
                                      workspaceHandle.data.workspaceID,
                                      collectionID, requestID, request))
               ref == Len(handleRefData) + 1
           IN  Outcome(state, Append(handleRefData, cell),
                       IF handleIsAlreadyIssued(handleRefData, issuedHandles, cell.data)
                       THEN issuedHandles ELSE Append(issuedHandles, ref),
                       Right(RefHandle(ref, cell)))

\* ------------------------------------------------------------ the callers

isPrefix(a, b) == Len(a) <= Len(b) /\ SubSeq(b, 1, Len(a)) = a

requestIDs(collections) ==
  UNION { { childID(id, j) :
              j \in 0..(Len(navigateToFolderWithIndexPath(collections,
                                                          indexPathOf(id)).requests) - 1) }
          : id \in collectionIDs(collections) }

\* an imported collection: a name and some requests, no folders
RECURSIVE importedRequests(_, _)
importedRequests(n, used) ==
  IF n = 0 THEN <<>>
  ELSE LET uid == freshUid(used)
       IN  <<[uid |-> uid, name |-> "r"]>> \o importedRequests(n - 1, used \cup {uid})

importedCollection(name, n, used) ==
  LET uid == freshUid(used)
  IN  [uid |-> uid, name |-> name, folders |-> <<>>,
       requests |-> importedRequests(n, used \cup {uid})]

ImportInputs ==
  {<<>>} \cup { <<importedCollection(name, n, usedUids)>> :
                  name \in CollectionNames, n \in 0..MaxRequests }

\* reorder: the destination is a sibling of the dragged collection, or null (<<>>)
ReorderCollectionInputs(handle) ==
  {<<>>} \cup
  (IF handle.type # "ok" THEN {}
   ELSE { id \in collectionIDs(state) :
            /\ id # handle.data.collectionID
            /\ sliceInit(split(id)) = sliceInit(split(handle.data.collectionID)) })

\* move: the destination is a collection outside the moved one, or null (<<>>)
MoveCollectionInputs(handle) ==
  {<<>>} \cup
  (IF handle.type # "ok" THEN {}
   ELSE { id \in collectionIDs(state) :
            ~isPrefix(indexPathOf(handle.data.collectionID), indexPathOf(id)) })

\* reorder: the destination is a request of the handle's collection, or null (<<>>)
ReorderRequestInputs(handle) ==
  {<<>>} \cup
  (IF handle.value.type # "ok" THEN {}
   ELSE { id \in requestIDs(state) :
            join(sliceInit(split(id))) = handle.value.data.collectionID })

CollectionIDInputs == collectionIDs(state) \cup {<<>>, <<"9">>}

RequestIDInputs ==
  requestIDs(state) \cup {<<>>, <<"0">>, <<"0", "/">>, <<"9", "/", "0">>}

\* the arguments a caller passes along with a handle: every one with a handle that
\* reads ok, one with a handle that is refused
ArgsFor(handle, args, arg) ==
  IF handle.type = "ok" /\ handle.data.providerID = providerID
     /\ handle.data.workspaceID = "personal"
  THEN args ELSE {arg}

RequestHandleRefs ==
  { RefHandle(i, handleRefData[i]) : i \in DOMAIN handleRefData }
    \cup { RefHandle(0, value) : value \in ForeignRequestHandles }

\* Object identities are renumbered in the order the tree and then the refs hold
\* them: two states that differ only in the numbering are one state.
RECURSIVE flatUids(_)
flatUids(collections) ==
  IF collections = <<>> THEN <<>>
  ELSE (IF Head(collections) = Undefined THEN <<>>
        ELSE <<Head(collections).uid>>
             \o [j \in DOMAIN Head(collections).requests |->
                   IF Head(collections).requests[j] = Undefined THEN 0
                   ELSE Head(collections).requests[j].uid]
             \o flatUids(Head(collections).folders))
       \o flatUids(Tail(collections))

cellUidSeq(cells) ==
  [i \in DOMAIN cells |-> IF cells[i].type = "ok" THEN cells[i].data.request.uid ELSE 0]

RECURSIVE firstOccurrences(_, _)
firstOccurrences(uids, seen) ==
  IF uids = <<>> THEN <<>>
  ELSE IF Head(uids) = 0 \/ Head(uids) \in seen THEN firstOccurrences(Tail(uids), seen)
  ELSE <<Head(uids)>> \o firstOccurrences(Tail(uids), seen \cup {Head(uids)})

rankIn(order, uid) == CHOOSE k \in DOMAIN order : order[k] = uid

RECURSIVE renumberTree(_, _)
renumberTree(collections, order) ==
  [i \in DOMAIN collections |->
     IF collections[i] = Undefined THEN Undefined
     ELSE [uid |-> rankIn(order, collections[i].uid),
           name |-> collections[i].name,
           folders |-> renumberTree(collections[i].folders, order),
           requests |->
             [j \in DOMAIN collections[i].requests |->
                IF collections[i].requests[j] = Undefined THEN Undefined
                ELSE [collections[i].requests[j] EXCEPT !.uid = rankIn(order, @)]]]]

renumberCells(cells, order) ==
  [i \in DOMAIN cells |->
     IF cells[i].type = "ok"
     THEN [cells[i] EXCEPT !.data.request.uid = rankIn(order, @)]
     ELSE cells[i]]

uidOrder(collections, cells) ==
  firstOccurrences(flatUids(collections) \o cellUidSeq(cells), {})

WithinBounds(o) ==
  /\ countCollections(o.state) <= MaxCollections
  /\ countRequests(o.state) <= MaxRequests
  /\ depthOf(o.state) <= MaxDepth
  /\ Len(o.handleRefData) <= MaxRefs

\* one call of the provider with outcome o; a caller keeps a returned collection
\* handle or drops it. result is the last call that did not return a Left, steps
\* counts these calls.
Call(op, handle, arg, o) ==
  /\ o.ret.tag = "Left" \/ steps < MaxSteps
  /\ IF o.state = state /\ o.handleRefData = handleRefData
     THEN UNCHANGED <<state, handleRefData>>
     ELSE /\ WithinBounds(o)
          /\ state' = renumberTree(o.state, uidOrder(o.state, o.handleRefData))
          /\ handleRefData' =
               renumberCells(o.handleRefData, uidOrder(o.state, o.handleRefData))
  /\ issuedHandles' = o.issuedHandles
  /\ collectionHandles' \in
       IF o.ret.tag = "Right" /\ "type" \in DOMAIN o.ret.value
       THEN { hs \in SUBSET (collectionHandles \cup {o.ret.value}) :
                Cardinality(hs) <= MaxCollHandles }
       ELSE {collectionHandles}
  /\ steps' = IF o.ret.tag = "Left" THEN steps ELSE steps + 1
  /\ result' = IF o.ret.tag = "Left" THEN result
               ELSE [op |-> op, handle |-> handle, arg |-> arg, ret |-> o.ret]
  /\ UNCHANGED <<workspaceRef, derived>>

NoCall == [op |-> "none", handle |-> Undefined, arg |-> <<>>, ret |-> Right(Undefined)]

Init ==
  /\ state = <<>>
  /\ handleRefData = <<>>
  /\ issuedHandles = <<>>
  /\ collectionHandles = {}
  /\ result = NoCall
  /\ steps = 0
  /\ workspaceRef = getPersonalWorkspaceHandle
  /\ derived = <<>>

CreateRESTRootCollection ==
  \E w \in WorkspaceHandleInputs, name \in CollectionNames :
    Call("createRESTRootCollection", w, name, createRESTRootCollection(w, name))

CreateRESTChildCollection ==
  \E h \in CollectionHandleInputs, name \in CollectionNames :
    Call("createRESTChildCollection", h, name, createRESTChildCollection(h, name))

UpdateRESTCollection ==
  \E h \in CollectionHandleInputs, name \in CollectionNames :
    Call("updateRESTCollection", h, name, updateRESTCollection(h, name))

RemoveRESTCollection ==
  \E h \in CollectionHandleInputs :
    Call("removeRESTCollection", h, <<>>, removeRESTCollection(h))

CreateRESTRequest ==
  \E h \in CollectionHandleInputs, name \in RequestNames :
    Call("createRESTRequest", h, name, createRESTRequest(h, name))

RemoveRESTRequest ==
  \E h \in RequestHandleRefs : Call("removeRESTRequest", h, <<>>, removeRESTRequest(h))

UpdateRESTRequest ==
  \E h \in RequestHandleRefs, name \in RequestNames :
    Call("updateRESTRequest", h, name, updateRESTRequest(h, name))

ImportRESTCollections ==
  \E w \in WorkspaceHandleInputs :
    \E collections \in ArgsFor(w, ImportInputs, <<>>) :
      Call("importRESTCollections", w, collections,
           importRESTCollections(w, collections))

ReorderRESTCollection ==
  \E h \in CollectionHandleInputs :
    \E dest \in ReorderCollectionInputs(h) :
      Call("reorderRESTCollection", h, dest, reorderRESTCollection(h, dest))

MoveRESTCollection ==
  \E h \in CollectionHandleInputs :
    \E dest \in MoveCollectionInputs(h) :
      Call("moveRESTCollection", h, dest, moveRESTCollection(h, dest))

ReorderRESTRequest ==
  \E h \in RequestHandleRefs :
    \E dest \in ReorderRequestInputs(h) :
      Call("reorderRESTRequest", h, dest,
           reorderRESTRequest(h, IF h.value.type = "ok" THEN h.value.data.collectionID
                                 ELSE <<"0">>, dest))

MoveRESTRequest ==
  \E h \in RequestHandleRefs :
    \E dest \in ArgsFor(h.value, collectionIDs(state), <<"0">>) :
      Call("moveRESTRequest", h, dest, moveRESTRequest(h, dest))

GetCollectionHandle ==
  \E w \in WorkspaceHandleInputs :
    \E id \in ArgsFor(w, CollectionIDInputs, <<"0">>) :
      Call("getCollectionHandle", w, id, getCollectionHandle(w, id))

GetRequestHandle ==
  \E w \in WorkspaceHandleInputs :
    \E id \in ArgsFor(w, RequestIDInputs, <<"0", "/", "0">>) :
      Call("getRequestHandle", w, id, getRequestHandle(w, id))

Next ==
  \/ CreateRESTRootCollection
  \/ CreateRESTChildCollection
  \/ UpdateRESTCollection
  \/ RemoveRESTCollection
  \/ CreateRESTRequest
  \/ RemoveRESTRequest
  \/ UpdateRESTRequest
  \/ ImportRESTCollections
  \/ ReorderRESTCollection
  \/ MoveRESTCollection
  \/ ReorderRESTRequest
  \/ MoveRESTRequest
  \/ GetCollectionHandle
  \/ GetRequestHandle

Spec == Init /\ [][Next]_vars

\* ------------------------------------------------ the handles as computeds

\* Every handle the provider returns is a computed over the handle it was made
\* from: each read validates the parent again.  A workspace handle is a
\* shallowRef its holder can write.

\* the computed of getCollectionHandle, getRequestHandle, createRESTRootCollection
\* and importRESTCollections: parent is what the workspace handle reads now
readFromWorkspace(parent, value) ==
  IF ~isValidWorkspaceHandle(parent, providerID, "personal")
  THEN Invalid("WORKSPACE_INVALIDATED")
  ELSE value

\* a computed that reports its parent collection's loss as the workspace's
readFromCollection_workspaceReason(parent, value) ==
  IF ~isValidCollectionHandle(parent, providerID, "personal")
  THEN Invalid("WORKSPACE_INVALIDATED")
  ELSE value

\* the computed of createRESTChildCollection and createRESTRequest: parent is what
\* the parent collection handle reads now
readFromCollection(parent, value) ==
  IF ~isValidCollectionHandle(parent, providerID, "personal")
  THEN Invalid("COLLECTION_INVALIDATED")
  ELSE value

fromCollection == {"createRESTChildCollection", "createRESTRequest"}

\* a computed handle: the operation that made it, its parent (0: the workspace
\* handle, k: the k-th computed handle), and what it returns when the parent is
\* valid: fixed data, or the value of the handleRefData ref it closes over
Computed(op, parent, value, ref) ==
  [op |-> op, parent |-> parent, value |-> value, ref |-> ref]

\* what the k-th computed handle reads now
RECURSIVE handleValue(_)
handleValue(k) ==
  LET parent == IF derived[k].parent = 0 THEN workspaceRef
                ELSE handleValue(derived[k].parent)
      value == IF derived[k].ref = 0 THEN derived[k].value
               ELSE handleRefData[derived[k].ref]
  IN  IF derived[k].op \in fromCollection
      THEN readFromCollection(parent, value)
      ELSE readFromWorkspace(parent, value)

derivedCollections == { k \in DOMAIN derived : derived[k].ref = 0 }

derivedRequests == { k \in DOMAIN derived : derived[k].ref # 0 }

\* one call made through the workspace handle or a computed handle, with outcome
\* o; the holder keeps the handle a Right carries
Derive(op, parent, arg, o) ==
  /\ o.ret.tag # "Left"
  /\ steps < MaxSteps
  /\ WithinBounds(o)
  /\ state' = renumberTree(o.state, uidOrder(o.state, o.handleRefData))
  /\ handleRefData' = renumberCells(o.handleRefData, uidOrder(o.state, o.handleRefData))
  /\ issuedHandles' = o.issuedHandles
  /\ derived' =
       IF o.ret.tag = "Right" /\ "type" \in DOMAIN o.ret.value
       THEN Append(derived, Computed(op, parent, o.ret.value, 0))
       ELSE IF o.ret.tag = "Right" /\ "ref" \in DOMAIN o.ret.value
       THEN Append(derived, Computed(op, parent, Undefined, o.ret.value.ref))
       ELSE derived
  /\ Len(derived') <= MaxDerived
  /\ steps' = steps + 1
  /\ result' = [op |-> op,
                handle |-> IF parent = 0 THEN workspaceRef ELSE handleValue(parent),
                arg |-> arg, ret |-> o.ret]
  /\ UNCHANGED <<workspaceRef, collectionHandles>>

\* the holder of the workspace handle writes it
WriteWorkspaceHandle ==
  /\ workspaceRef' \in WorkspaceHandleInputs \ {workspaceRef}
  /\ UNCHANGED <<state, handleRefData, issuedHandles, collectionHandles, result, steps,
                 derived>>

WorkspaceIDInputs == {"personal", "team", "Personal", ""}

\* the holder asks for a workspace handle by ID and looks at what it gets
GetWorkspaceHandle ==
  \E workspaceID \in WorkspaceIDInputs :
    /\ getWorkspaceHandle(workspaceID).tag # "Left"
    /\ steps < MaxSteps
    /\ steps' = steps + 1
    /\ result' = [op |-> "getWorkspaceHandle", handle |-> Undefined,
                  arg |-> workspaceID, ret |-> getWorkspaceHandle(workspaceID)]
    /\ UNCHANGED <<state, handleRefData, issuedHandles, collectionHandles,
                   workspaceRef, derived>>

DeriveRootCollection ==
  \E name \in CollectionNames :
    Derive("createRESTRootCollection", 0, name,
           createRESTRootCollection(workspaceRef, name))

DeriveImportedCollection ==
  \E collections \in ImportInputs :
    Derive("importRESTCollections", 0, collections,
           importRESTCollections(workspaceRef, collections))

DeriveCollectionHandle ==
  \E id \in CollectionIDInputs :
    Derive("getCollectionHandle", 0, id, getCollectionHandle(workspaceRef, id))

DeriveRequestHandle ==
  \E id \in RequestIDInputs :
    Derive("getRequestHandle", 0, id, getRequestHandle(workspaceRef, id))

DeriveChildCollection ==
  \E k \in derivedCollections, name \in CollectionNames :
    Derive("createRESTChildCollection", k, name,
           createRESTChildCollection(handleValue(k), name))

DeriveRequest ==
  \E k \in derivedCollections, name \in RequestNames :
    Derive("createRESTRequest", k, name, createRESTRequest(handleValue(k), name))

RemoveDerivedRequest ==
  \E k \in derivedRequests :
    Derive("removeRESTRequest", k, <<>>,
           removeRESTRequest(RefHandle(derived[k].ref, handleValue(k))))

HandleNext ==
  \/ WriteWorkspaceHandle
  \/ GetWorkspaceHandle
  \/ DeriveRootCollection
  \/ DeriveImportedCollection
  \/ DeriveCollectionHandle
  \/ DeriveRequestHandle
  \/ DeriveChildCollection
  \/ DeriveRequest
  \/ RemoveDerivedRequest

HandleSpec == Init /\ [][HandleNext]_vars

\* ------------------------------------------- moves in a larger collection

\* moveRESTRequest computes the affected request IDs from the request count of
\* the source collection: its cases need a collection of four requests.  The
\* tree is one imported collection of two to four requests and an empty second
\* root collection; requests are looked up and moved, none is added.

\* one call of the provider with outcome o on a tree that does not grow
CallOnLargerTree(op, handle, arg, o) ==
  /\ o.ret.tag = "Left" \/ steps < MaxSteps
  /\ Len(o.handleRefData) <= MaxRefs
  /\ state' = renumberTree(o.state, uidOrder(o.state, o.handleRefData))
  /\ handleRefData' = renumberCells(o.handleRefData, uidOrder(o.state, o.handleRefData))
  /\ issuedHandles' = o.issuedHandles
  /\ steps' = IF o.ret.tag = "Left" THEN steps ELSE steps + 1
  /\ result' = IF o.ret.tag = "Left" THEN result
               ELSE [op |-> op, handle |-> handle, arg |-> arg, ret |-> o.ret]
  /\ UNCHANGED <<collectionHandles, workspaceRef, derived>>

MoveInit ==
  /\ state \in { <<importedCollection("A", n, {}), makeCollection(n + 2, "A")>> :
                   n \in 2..MaxMoveRequests }
  /\ handleRefData = <<>>
  /\ issuedHandles = <<>>
  /\ collectionHandles = {}
  /\ result = NoCall
  /\ steps = 0
  /\ workspaceRef = getPersonalWorkspaceHandle
  /\ derived = <<>>

LookUpRequest ==
  \E id \in requestIDs(state) :
    CallOnLargerTree("getRequestHandle", getPersonalWorkspaceHandle, id,
                     getRequestHandle(getPersonalWorkspaceHandle, id))

MoveLookedUpRequest ==
  \E h \in RequestHandleRefs :
    \E dest \in ArgsFor(h.value, collectionIDs(state), <<"0">>) :
      CallOnLargerTree("moveRESTRequest", h, dest, moveRESTRequest(h, dest))

MoveNext ==
  \/ LookUpRequest
  \/ MoveLookedUpRequest

MoveSpec == MoveInit /\ [][MoveNext]_vars

\* ---------------------------------------------------------------- the views

\* The views are computeds over the tree: each read walks the tree again.

\* path.slice(0, i + 1).join("/") of a path of numbers
RECURSIVE joinPath(_)
joinPath(path) ==
  IF path = <<>> THEN <<>>
  ELSE IF Len(path) = 1 THEN toString(path[1])
  ELSE toString(path[1]) \o <<"/">> \o joinPath(Tail(path))

\* item.folders.map(...) of getRESTCollectionChildrenView
childCollectionItems(item, collectionID) ==
  [id \in DOMAIN item.folders |->
     [type |-> "collection",
      collectionID |-> childID(collectionID, id - 1),
      isLastItem |-> IF Len(item.folders) > 1 THEN id - 1 = Len(item.folders) - 1
                     ELSE FALSE,
      name |-> item.folders[id].name,
      parentCollectionID |-> collectionID]]

\* item.requests.map(...) of getRESTCollectionChildrenView
childRequestItems(item, collectionID) ==
  [id \in DOMAIN item.requests |->
     [type |-> "request",
      isLastItem |-> IF Len(item.requests) > 1 THEN id - 1 = Len(item.requests) - 1
                     ELSE FALSE,
      collectionID |-> collectionID,
      requestID |-> childID(collectionID, id - 1),
      request |-> item.requests[id]]]

\* what the children view of a collection handle reads now
getRESTCollectionChildrenView(collectionHandle) ==
  IF ~isValidCollectionHandle(collectionHandle, providerID, "personal")
  THEN Invalid("INVALID_COLLECTION_HANDLE")
  ELSE LET collectionID == collectionHandle.data.collectionID
           item == navigateToFolderWithIndexPath(state, indexPathOf(collectionID))
       IN  Ok([providerID |-> providerID,
               workspaceID |-> collectionHandle.data.workspaceID,
               collectionID |-> collectionID,
               content |-> IF item # Null
                           THEN childCollectionItems(item, collectionID)
                                  \o childRequestItems(item, collectionID)
                           ELSE <<>>])

\* what the root view of a workspace handle reads now
getRESTRootCollectionView(workspaceHandle) ==
  IF ~isValidWorkspaceHandle(workspaceHandle, providerID, "personal")
  THEN Invalid("INVALID_WORKSPACE_HANDLE")
  ELSE Ok([providerID |-> providerID,
           workspaceID |-> workspaceHandle.data.workspaceID,
           collections |->
             [id \in DOMAIN state |->
                [collectionID |-> toString(id - 1),
                 isLastItem |-> id - 1 = Len(state) - 1,
                 name |-> state[id].name,
                 parentCollectionID |-> Null]]])

\* the auth a request inherits after the loop has looked at parentFolder, the
\* collection at currentPath, depth collections down the path
inheritedAuthAt_rootOnly(auth, parentFolder, currentPath, depth) ==
  IF depth = 1
  THEN [parentID |-> currentPath, parentName |-> parentFolder.name,
        inheritedAuth |-> IF parentFolder.auth.authType = "inherit"
                          THEN auth.inheritedAuth ELSE parentFolder.auth]
  ELSE auth

inheritedAuthAt(auth, parentFolder, currentPath, depth) ==
  LET atRoot == IF parentFolder.auth.authType = "inherit" /\ depth = 1
                THEN [parentID |-> currentPath, parentName |-> parentFolder.name,
                      inheritedAuth |-> auth.inheritedAuth]
                ELSE auth
  IN  IF parentFolder.auth.authType # "inherit"
      THEN [parentID |-> currentPath, parentName |-> parentFolder.name,
            inheritedAuth |-> parentFolder.auth]
      ELSE atRoot

\* headers.findIndex((h) => h.inheritedHeader?.key === header.key); 0 stands for -1
findHeader(headers, key) ==
  LET hits == { k \in DOMAIN headers : headers[k].inheritedHeader.key = key }
  IN  IF hits = {} THEN 0 ELSE CHOOSE k \in hits : \A j \in hits : k <= j

\* activeHeaders.forEach pushing every header
RECURSIVE inheritedHeadersAt_pushOnly(_, _, _, _)
inheritedHeadersAt_pushOnly(headers, activeHeaders, parentName, currentPath) ==
  IF activeHeaders = <<>> THEN headers
  ELSE inheritedHeadersAt_pushOnly(
         Append(headers, [parentID |-> currentPath, parentName |-> parentName,
                          inheritedHeader |-> Head(activeHeaders)]),
         Tail(activeHeaders), parentName, currentPath)

\* activeHeaders.forEach: a header replaces the entry with its key, or is pushed
RECURSIVE inheritedHeadersAt(_, _, _, _)
inheritedHeadersAt(headers, activeHeaders, parentName, currentPath) ==
  IF activeHeaders = <<>> THEN headers
  ELSE LET entry == [parentID |-> currentPath, parentName |-> parentName,
                     inheritedHeader |-> Head(activeHeaders)]
           index == findHeader(headers, Head(activeHeaders).key)
       IN  inheritedHeadersAt(
             IF index # 0 THEN [headers EXCEPT ![index] = entry]
             ELSE Append(headers, entry),
             Tail(activeHeaders), parentName, currentPath)

\* the loop over the prefixes of the path, from the i-th on
RECURSIVE inheritedFrom(_, _, _, _)
inheritedFrom(path, i, auth, headers) ==
  IF i > Len(path) THEN [auth |-> auth, headers |-> headers]
  ELSE LET parentFolder == navigateToFolderWithIndexPath(state, SubSeq(path, 1, i))
           currentPath == joinPath(SubSeq(path, 1, i))
       IN  IF parentFolder = Null THEN [auth |-> auth, headers |-> headers]
           ELSE inheritedFrom(
                  path, i + 1,
                  inheritedAuthAt(auth, parentFolder, currentPath, i),
                  inheritedHeadersAt(headers,
                                     SelectSeq(parentFolder.headers,
                                               LAMBDA h : h.active),
                                     parentFolder.name, currentPath))

\* what the auth and headers view of a collection handle reads now
getRESTCollectionLevelAuthHeadersView(collectionHandle) ==
  IF ~isValidCollectionHandle(collectionHandle, providerID, "personal")
  THEN Invalid("INVALID_COLLECTION_HANDLE")
  ELSE LET collectionID == collectionHandle.data.collectionID
           auth == [parentID |-> collectionID, parentName |-> "",
                    inheritedAuth |-> [authType |-> "none", authActive |-> TRUE]]
       IN  IF collectionID = <<>> THEN Ok([auth |-> auth, headers |-> <<>>])
           ELSE Ok(inheritedFrom(indexPathOf(collectionID), 1, auth, <<>>))

\* The views are read over trees whose collections carry auth and headers: a
\* root collection off the path, and a chain of up to MaxViewDepth collections,
\* each with one of three auths and some headers of two keys.

AuthInputs ==
  { [authType |-> "inherit", authActive |-> FALSE],
    [authType |-> "none", authActive |-> TRUE],
    [authType |-> "bearer", authActive |-> TRUE] }

Header(key, value, active) == [key |-> key, value |-> value, active |-> active]

\* the headers of the collection at a depth; the value tells where a header is from
HeaderInputs(depth) ==
  { <<>>,
    <<Header("k", depth, TRUE)>>,
    <<Header("k", depth, FALSE)>>,
    <<Header("j", depth, TRUE)>>,
    <<Header("k", depth, TRUE), Header("j", depth, FALSE)>>,
    <<Header("k", 0, TRUE), Header("k", depth, TRUE)>> }

ViewNames == <<"A", "B", "C">>

RECURSIVE chainsFrom(_)
chainsFrom(depth) ==
  { [uid |-> depth + 1, name |-> ViewNames[depth], requests |-> <<>>,
     auth |-> a, headers |-> h, folders |-> f] :
      a \in AuthInputs, h \in HeaderInputs(depth),
      f \in IF depth = MaxViewDepth THEN {<<>>}
            ELSE {<<>>} \cup { <<c>> : c \in chainsFrom(depth + 1) } }

offPath ==
  [uid |-> 1, name |-> "Z", requests |-> <<>>, folders |-> <<>>,
   auth |-> [authType |-> "basic", authActive |-> TRUE],
   headers |-> <<Header("k", 9, TRUE), Header("z", 9, TRUE)>>]

ViewInit ==
  /\ state \in { <<offPath, c>> : c \in chainsFrom(1) }
  /\ handleRefData = <<>>
  /\ issuedHandles = <<>>
  /\ collectionHandles = {}
  /\ result = NoCall
  /\ steps = 0
  /\ workspaceRef = getPersonalWorkspaceHandle
  /\ derived = <<>>

\* the collection handles a view is asked for: one per collection of the tree,
\* and one whose path ends where the tree has nothing
ViewHandleInputs ==
  { Ok(CollectionData(providerID, "personal", id, "A")) :
      id \in collectionIDs(state) \cup {<<"1", "/", "0", "/", "7">>} }

\* a view is made and read
ReadView(op, handle, view) ==
  /\ result' = [op |-> op, handle |-> handle, arg |-> <<>>, ret |-> Right(view)]
  /\ UNCHANGED <<state, handleRefData, issuedHandles, collectionHandles, steps,
                 workspaceRef, derived>>

ReadAuthHeadersView ==
  \E h \in ViewHandleInputs :
    ReadView("getRESTCollectionLevelAuthHeadersView", h,
             getRESTCollectionLevelAuthHeadersView(h))

ReadChildrenView ==
  \E h \in ViewHandleInputs :
    ReadView("getRESTCollectionChildrenView", h, getRESTCollectionChildrenView(h))

ViewNext ==
  \/ ReadAuthHeadersView
  \/ ReadChildrenView

ViewSpec == ViewInit /\ [][ViewNext]_vars

\* ------------------------------------------------------------- the claims

\* the request an ID addresses in the tree (Undefined when it addresses none)
requestAt(collections, requestID) ==
  LET collection == navigateToFolderWithIndexPath(
                      collections, indexPathOf(join(sliceInit(split(requestID)))))
  IN  IF collection = Null \/ collection = Undefined THEN Undefined
      ELSE at(collection.requests, parseInt(sliceLast(split(requestID))))

\* the requestID of a ref addresses the request the ref was made for
resolvesToOwnRequest(collections, cell) ==
  /\ requestAt(collections, cell.data.requestID) # Undefined
  /\ requestAt(collections, cell.data.requestID).uid = cell.data.request.uid

succeeded(op) == result.op = op /\ result.ret.tag = "Right"

\* C1: after any sequence of successful operations, every request handle that
\* reads ok carries a requestID that resolves to the request it was issued for.
C1_OkHandlesResolve ==
  \A i \in DOMAIN handleRefData :
    handleRefData[i].type = "ok" => resolvesToOwnRequest(state, handleRefData[i])

\* the call returned a Left and wrote nothing
refused(o) ==
  /\ o.ret.tag = "Left"
  /\ o.state = state
  /\ o.issuedHandles = issuedHandles
  /\ o.handleRefData = handleRefData

DestinationInputs == collectionIDs(state) \cup {<<>>}

\* a handle the claims call invalid: not ok, or of another provider or workspace
notThisWorkspace(handle) ==
  \/ handle.type # "ok"
  \/ handle.data.providerID # "PERSONAL_WORKSPACE_PROVIDER"
  \/ handle.data.workspaceID # "personal"

\* C2: each of the fourteen operations validates its handle first: with a handle
\* that is not ok, or of another provider, or of another workspace, it returns a
\* Left and leaves the tree and the registry of issued handles as they were.
C2_InvalidHandleRefused ==
  /\ \A w \in WorkspaceHandleInputs :
       notThisWorkspace(w) =>
         /\ \A name \in CollectionNames : refused(createRESTRootCollection(w, name))
         /\ \A collections \in ImportInputs :
              refused(importRESTCollections(w, collections))
         /\ \A id \in CollectionIDInputs : refused(getCollectionHandle(w, id))
         /\ \A id \in RequestIDInputs : refused(getRequestHandle(w, id))
  /\ \A h \in CollectionHandleInputs :
       notThisWorkspace(h) =>
         /\ \A name \in CollectionNames :
              /\ refused(createRESTChildCollection(h, name))
              /\ refused(updateRESTCollection(h, name))
         /\ \A name \in RequestNames : refused(createRESTRequest(h, name))
         /\ refused(removeRESTCollection(h))
         /\ \A dest \in DestinationInputs :
              /\ refused(reorderRESTCollection(h, dest))
              /\ refused(moveRESTCollection(h, dest))
  /\ \A h \in RequestHandleRefs :
       notThisWorkspace(h.value) =>
         /\ refused(removeRESTRequest(h))
         /\ \A name \in RequestNames : refused(updateRESTRequest(h, name))
         /\ \A dest \in DestinationInputs :
              /\ refused(moveRESTRequest(h, dest))
              /\ \A id \in requestIDs(state) \cup {<<>>} :
                   refused(reorderRESTRequest(h, dest, id))

\* C2's case: a tree and a registry that are not empty, a handle that
\* removeRESTRequest invalidated and the next removeRESTRequest with it refused,
\* and a handle of another provider refused by getRequestHandle for a request
\* that exists
C2_InvalidHandleRefused_witness ==
  /\ state # <<>>
  /\ issuedHandles # <<>>
  /\ \E i \in DOMAIN handleRefData :
       /\ handleRefData[i] = Invalid("REQUEST_INVALIDATED")
       /\ removeRESTRequest(RefHandle(i, handleRefData[i])).ret
            = Left("INVALID_REQUEST_HANDLE")
  /\ \E w \in WorkspaceHandleInputs :
       /\ w.type = "ok" /\ w.data.providerID # providerID
       /\ requestAt(state, <<"0", "/", "0">>) # Undefined
       /\ getRequestHandle(w, <<"0", "/", "0">>).ret = Left("INVALID_COLLECTION_HANDLE")

\* the step is a call of op that returned a Right
called(op) == steps' = steps + 1 /\ result'.op = op /\ result'.ret.tag = "Right"

\* C3: after removeRESTRequest succeeds for the request with ID R, every handle
\* returned before for R, a second one obtained while the first was valid
\* included, reads invalid with reason REQUEST_INVALIDATED.
C3_RemovedRequestHandlesInvalid ==
  [][called("removeRESTRequest") =>
       \A i \in DOMAIN handleRefData :
         ( /\ handleRefData[i].type = "ok"
           /\ handleRefData[i].data.requestID = result'.handle.value.data.requestID
           /\ handleRefData[i].data.request.uid = result'.handle.value.data.request.uid )
         => handleRefData'[i] = Invalid("REQUEST_INVALIDATED")]_vars

\* the requests and collections of the collection with this ID, itself included
uidsUnder(collections, collectionID) ==
  LET collection == navigateToFolderWithIndexPath(collections, indexPathOf(collectionID))
  IN  IF collection = Null \/ collection = Undefined THEN {}
      ELSE uidsOf(<<collection>>)

\* the tree holds collections and requests only, no undefined entry
RECURSIVE intact(_)
intact(collections) ==
  \A i \in DOMAIN collections :
    /\ collections[i] # Undefined
    /\ \A j \in DOMAIN collections[i].requests : collections[i].requests[j] # Undefined
    /\ intact(collections[i].folders)

\* C4: after removeRESTCollection succeeds for the collection at index path C,
\* every registered request handle that was valid and whose request lay in C or in
\* a collection nested under C is invalid with reason REQUEST_INVALIDATED.
C4_RemovedCollectionRequestHandlesInvalid ==
  [][(called("removeRESTCollection") /\ intact(state)) =>
       \A i \in DOMAIN handleRefData :
         ( /\ isIssued(i)
           /\ handleRefData[i].type = "ok"
           /\ handleRefData[i].data.request.uid
                \in uidsUnder(state, result'.handle.data.collectionID) )
         => handleRefData'[i] = Invalid("REQUEST_INVALIDATED")]_vars

\* C5: after removeRESTCollection succeeds with a collection handle, calling
\* removeRESTCollection, updateRESTCollection, createRESTRequest or
\* createRESTChildCollection again with that handle returns Left
\* INVALID_COLLECTION_HANDLE and does not change the tree.
C5_RemovedCollectionHandleRefused ==
  succeeded("removeRESTCollection") =>
    /\ removeRESTCollection(result.handle) = Returns(Left("INVALID_COLLECTION_HANDLE"))
    /\ \A name \in CollectionNames :
         /\ updateRESTCollection(result.handle, name)
              = Returns(Left("INVALID_COLLECTION_HANDLE"))
         /\ createRESTChildCollection(result.handle, name)
              = Returns(Left("INVALID_COLLECTION_HANDLE"))
    /\ \A name \in RequestNames :
         createRESTRequest(result.handle, name)
           = Returns(Left("INVALID_COLLECTION_HANDLE"))

collectionIDOf(requestID) == join(sliceInit(split(requestID)))

indexOf(requestID) == parseInt(sliceLast(split(requestID)))

\* a registered ref that reads ok and addresses the request it was made for
soundHandle(i) ==
  /\ isIssued(i)
  /\ handleRefData[i].type = "ok"
  /\ resolvesToOwnRequest(state, handleRefData[i])

\* C6: after removeRESTRequest succeeds for the request at index p of a collection,
\* every valid registered handle for a request of that collection at an index
\* above p is rewritten to the old index minus one or invalidated.
C6_RemoveRequestShiftsLaterHandles ==
  [][( /\ called("removeRESTRequest")
       /\ intact(state)
       /\ resolvesToOwnRequest(state, result'.handle.value) ) =>
       \A i \in DOMAIN handleRefData :
         ( /\ soundHandle(i)
           /\ handleRefData[i].data.collectionID = result'.handle.value.data.collectionID
           /\ indexOf(handleRefData[i].data.requestID)
                > indexOf(result'.handle.value.data.requestID) )
         => \/ handleRefData'[i].type = "invalid"
            \/ handleRefData'[i].data.requestID
                 = childID(handleRefData[i].data.collectionID,
                           indexOf(handleRefData[i].data.requestID) - 1)]_vars

\* the ID runs through a later sibling of the collection with collectionID
throughLaterSibling(id, collectionID) ==
  LET path == indexPathOf(id)
      removed == indexPathOf(collectionID)
      d == Len(removed)
  IN  /\ Len(path) >= d
      /\ SubSeq(path, 1, d - 1) = SubSeq(removed, 1, d - 1)
      /\ path[d] > removed[d]

\* C7: after removeRESTCollection succeeds for a collection at position i among
\* its siblings, every valid registered request handle whose path runs through a
\* later sibling is rewritten to the shifted path or invalidated: none stays valid
\* with a path that addresses another collection or none.
C7_RemoveCollectionShiftsLaterSiblings ==
  [][( /\ called("removeRESTCollection")
       /\ intact(state)
       /\ uidsUnder(state, result'.handle.data.collectionID) # {} ) =>
       \A i \in DOMAIN handleRefData :
         ( /\ soundHandle(i)
           /\ throughLaterSibling(handleRefData[i].data.collectionID,
                                  result'.handle.data.collectionID) )
         => \/ handleRefData'[i].type = "invalid"
            \/ resolvesToOwnRequest(state', handleRefData'[i])]_vars

\* C8: after a successful moveRESTCollection, reorderRESTCollection or
\* reorderRESTRequest, every issued handle whose index path the operation changed
\* is rewritten to the entity's new path or reads invalid (stated for the request
\* handles).
C8_MoveAndReorderRewriteHandles ==
  [][( /\ \/ called("moveRESTCollection")
          \/ called("reorderRESTCollection")
          \/ called("reorderRESTRequest")
       /\ intact(state) ) =>
       \A i \in DOMAIN handleRefData :
         ( /\ soundHandle(i)
           /\ ~resolvesToOwnRequest(state', handleRefData[i]) )
         => \/ handleRefData'[i].type = "invalid"
            \/ resolvesToOwnRequest(state', handleRefData'[i])]_vars

\* C9: after moveRESTRequest succeeds for the request at index p of a source
\* collection holding n requests, every valid registered handle for a request of
\* the source collection at an index q, p < q <= n-1, has its requestID rewritten
\* to source/(q-1) (stated for a move into another collection).
C9_MoveRequestDecrementsLaterHandles ==
  [][( /\ called("moveRESTRequest")
       /\ intact(state)
       /\ resolvesToOwnRequest(state, result'.handle.value)
       /\ result'.arg # result'.handle.value.data.collectionID ) =>
       LET source == collectionIDOf(result'.handle.value.data.requestID)
           p == indexOf(result'.handle.value.data.requestID)
           n == Len(getRequestsByPath(state, source))
       IN  \A i \in DOMAIN handleRefData :
             ( /\ soundHandle(i)
               /\ collectionIDOf(handleRefData[i].data.requestID) = source
               /\ p < indexOf(handleRefData[i].data.requestID)
               /\ indexOf(handleRefData[i].data.requestID) <= n - 1 )
             => /\ handleRefData'[i].type = "ok"
                /\ handleRefData'[i].data.requestID
                     = childID(source, indexOf(handleRefData[i].data.requestID) - 1)]_vars

\* C10: after moveRESTRequest succeeds, the registered handle of the moved request
\* stays valid with collectionID the destination and requestID destination/(k-1),
\* k the destination's request count after the move, and that path resolves to
\* the moved request.
C10_MovedRequestHandleFollows ==
  [][( /\ called("moveRESTRequest")
       /\ intact(state)
       /\ resolvesToOwnRequest(state, result'.handle.value) ) =>
       LET ref == issuedHandles[findIssued(handleRefData, issuedHandles,
                                           result'.handle.value.data.requestID)]
           destination == result'.arg
           k == Len(getRequestsByPath(state', destination))
       IN  soundHandle(ref) =>
             /\ handleRefData'[ref].type = "ok"
             /\ handleRefData'[ref].data.collectionID = destination
             /\ handleRefData'[ref].data.requestID = childID(destination, k - 1)
             /\ resolvesToOwnRequest(state', handleRefData'[ref])]_vars

\* what the parent of the k-th computed handle reads now
parentValue(k) ==
  IF derived[k].parent = 0 THEN workspaceRef ELSE handleValue(derived[k].parent)

\* C11: at every moment a computed handle reads invalid exactly when what its
\* parent reads now is not an ok handle of this provider and workspace
\* "personal": with reason "COLLECTION_INVALIDATED" if createRESTRequest or
\* createRESTChildCollection made it, "WORKSPACE_INVALIDATED" if
\* getCollectionHandle, getRequestHandle, createRESTRootCollection or
\* importRESTCollections made it.  Otherwise a collection handle reads ok and a
\* request handle reads the current value of its handleRefData ref.
C11_DerivedHandlesFollowParent ==
  \A k \in DOMAIN derived :
    IF notThisWorkspace(parentValue(k))
    THEN handleValue(k) =
           Invalid(IF derived[k].op \in {"createRESTRequest", "createRESTChildCollection"}
                   THEN "COLLECTION_INVALIDATED" ELSE "WORKSPACE_INVALIDATED")
    ELSE IF derived[k].ref # 0
         THEN handleValue(k) = handleRefData[derived[k].ref]
         ELSE handleValue(k).type = "ok"

\* the workspace handle was written after a request was created through a
\* collection handle got from it: the collection handle and a request handle got
\* from the workspace read WORKSPACE_INVALIDATED, the created request's handle
\* COLLECTION_INVALIDATED
C11_DerivedHandlesFollowParent_witness ==
  /\ notThisWorkspace(workspaceRef)
  /\ \E k, j \in DOMAIN derived :
       /\ derived[k].op = "createRESTRequest"
       /\ derived[k].parent # 0
       /\ handleRefData[derived[k].ref].type = "ok"
       /\ handleValue(k) = Invalid("COLLECTION_INVALIDATED")
       /\ handleValue(derived[k].parent) = Invalid("WORKSPACE_INVALIDATED")
       /\ derived[j].op = "getRequestHandle"
       /\ handleValue(j) = Invalid("WORKSPACE_INVALIDATED")

\* the collection an ID addresses in the tree (Null when it addresses none)
collectionAt(collections, collectionID) ==
  navigateToFolderWithIndexPath(collections, indexPathOf(collectionID))

\* C12: the handle returned by createRESTChildCollection identifies the new child:
\* its collectionID is the parent's index path followed by the child's index in
\* the parent's folder list, and resolves to a collection with the handle's name.
C12_ChildCollectionHandleIdentifiesChild ==
  [][( /\ called("createRESTChildCollection")
       /\ intact(state)
       /\ collectionAt(state, result'.handle.data.collectionID) # Null )
     => LET parentID == result'.handle.data.collectionID
            parent == collectionAt(state', parentID)
            handle == result'.ret.value
        IN  /\ handle.data.collectionID = childID(parentID, Len(parent.folders) - 1)
            /\ collectionAt(state', handle.data.collectionID) # Null
            /\ collectionAt(state', handle.data.collectionID).name = handle.data.name
    ]_vars

\* C13: the handle returned by a successful importRESTCollections carries the
\* collectionID of the first imported collection, the root collection at the
\* index the root list had as its length before the import, and the name of
\* that collection.
C13_ImportHandleResolves ==
  [][( called("importRESTCollections") /\ intact(state) )
     => LET handle == result'.ret.value
            collection == collectionAt(state', handle.data.collectionID)
        IN  /\ handle.data.collectionID = toString(Len(state))
            /\ collection # Null
            /\ collection.name = handle.data.name
    ]_vars

\* C14: createRESTRootCollection with a valid workspace handle appends exactly
\* one collection, with the given name, at the end of the root list and leaves
\* every root collection there was at its index; it returns Right with an ok
\* handle whose collectionID is the number of root collections before the call
\* and whose name is the given name.
C14_CreateRootAppends ==
  \A name \in CollectionNames :
    LET o == createRESTRootCollection(getPersonalWorkspaceHandle, name)
        n == Len(state)
    IN  /\ Len(o.state) = n + 1
        /\ SubSeq(o.state, 1, n) = state
        /\ o.state[n + 1] # Undefined
        /\ o.state[n + 1].name = name
        /\ o.ret.tag = "Right"
        /\ o.ret.value.type = "ok"
        /\ o.ret.value.data.collectionID = toString(n)
        /\ o.ret.value.data.name = name
        /\ collectionAt(o.state, o.ret.value.data.collectionID) = o.state[n + 1]

\* createRESTRootCollection has added a second root collection and returned "1"
C14_CreateRootAppends_witness ==
  /\ succeeded("createRESTRootCollection")
  /\ Len(state) = 2
  /\ result.ret.value.data.collectionID = <<"1">>
  /\ collectionAt(state, <<"1">>) = state[2]
  /\ state[2].name = result.arg

\* a registered handleRefData ref that reads ok with these four IDs
registeredWith(provider, workspaceID, collectionID, requestID) ==
  \E k \in DOMAIN issuedHandles :
    /\ handleRefData[issuedHandles[k]].type = "ok"
    /\ handleRefData[issuedHandles[k]].data.providerID = provider
    /\ handleRefData[issuedHandles[k]].data.workspaceID = workspaceID
    /\ handleRefData[issuedHandles[k]].data.collectionID = collectionID
    /\ handleRefData[issuedHandles[k]].data.requestID = requestID

\* C15: createRESTRequest with a valid parent collection handle saves the request
\* into the collection of the handle's ID and returns Right with an ok handle
\* whose collectionID is that ID and whose requestID is ID/insertionIndex, the
\* path of the saved request; the handle's ref is put on issuedHandles unless a
\* registered ref reads ok with the same providerID, workspaceID, collectionID
\* and requestID.
C15_CreateRequestReturnsItsHandle ==
  \A h \in collectionHandles, name \in RequestNames :
    ~notThisWorkspace(h) =>
      LET o == createRESTRequest(h, name)
          parentID == h.data.collectionID
      IN  /\ o.ret.tag = "Right"
          /\ o.ret.value.value.type = "ok"
          /\ o.ret.value.value.data.collectionID = parentID
          /\ o.ret.value.value.data.requestID
               = childID(parentID, Len(collectionAt(o.state, parentID).requests) - 1)
          /\ requestAt(o.state, o.ret.value.value.data.requestID)
               = o.ret.value.value.data.request
          /\ o.ret.value.value.data.request.name = name
          /\ o.handleRefData[o.ret.value.ref] = o.ret.value.value
          /\ o.issuedHandles =
               IF registeredWith(providerID, "personal", parentID,
                                 o.ret.value.value.data.requestID)
               THEN issuedHandles
               ELSE Append(issuedHandles, o.ret.value.ref)

\* the request IDs getRequestHandle is asked for: those of the tree, the empty
\* one, one segment only, an empty last segment, no such collection, no such
\* request
RequestIDsAsked ==
  RequestIDInputs \cup {<<"0", "/", "9">>, <<"0", "/", "0", "/">>}

\* what getRequestHandle returns for a requestID that is well formed: Left
\* REQUEST_NOT_FOUND when the parent collection does not exist or has no request
\* at the last index, otherwise Right with an ok handle of that request; the tree
\* stays as it is
lookedUp(o, requestID) ==
  /\ o.state = state
  /\ IF requestAt(state, requestID) = Undefined
     THEN o.ret = Left("REQUEST_NOT_FOUND")
     ELSE /\ o.ret.tag = "Right"
          /\ o.ret.value.value.type = "ok"
          /\ o.ret.value.value.data.requestID = requestID
          /\ o.ret.value.value.data.collectionID = collectionIDOf(requestID)
          /\ o.ret.value.value.data.request = requestAt(state, requestID)
          /\ o.handleRefData[o.ret.value.ref] = o.ret.value.value

\* C16 as stated: getRequestHandle with a valid workspace handle returns Left
\* INVALID_REQUEST_ID for the empty requestID, Left REQUEST_NOT_FOUND when the
\* parent collection does not exist or has no request at the last index, and
\* otherwise Right with an ok handle carrying the requestID, the path without its
\* last segment as collectionID and the request stored there; the tree is unchanged.
C16_GetRequestHandleAsStated ==
  \A requestID \in RequestIDsAsked :
    LET o == getRequestHandle(getPersonalWorkspaceHandle, requestID)
    IN  IF requestID = <<>>
        THEN o.ret = Left("INVALID_REQUEST_ID") /\ o.state = state
        ELSE lookedUp(o, requestID)

\* C16, amended: Left INVALID_REQUEST_ID is returned for the empty requestID and
\* also for a requestID whose last segment is empty (one that ends in a slash),
\* whatever the tree holds; for every other requestID the result is Left
\* REQUEST_NOT_FOUND or the Right handle as stated, and the tree is unchanged.
C16_GetRequestHandle ==
  \A requestID \in RequestIDsAsked :
    LET o == getRequestHandle(getPersonalWorkspaceHandle, requestID)
    IN  IF requestID = <<>> \/ sliceLast(split(requestID)) = <<>>
        THEN o.ret = Left("INVALID_REQUEST_ID") /\ o.state = state
        ELSE lookedUp(o, requestID)

\* getRequestHandle has returned the handle of a request of the tree, and in this
\* tree "0/" names an existing collection and no request
C16_GetRequestHandle_witness ==
  /\ succeeded("getRequestHandle")
  /\ result.ret.value.value.data.requestID = result.arg
  /\ requestAt(state, result.arg) # Undefined
  /\ collectionAt(state, <<"0">>) # Null
  /\ getRequestHandle(getPersonalWorkspaceHandle, <<"0", "/">>).ret
       = Left("INVALID_REQUEST_ID")
  /\ getRequestHandle(getPersonalWorkspaceHandle, <<"0", "/", "9">>).ret
       = Left("REQUEST_NOT_FOUND")

\* the collection IDs getCollectionHandle is asked for: those of the tree, the
\* empty one, and paths that end where the tree has nothing
CollectionIDsAsked ==
  CollectionIDInputs \cup {<<"0", "/", "9">>, <<"0", "/">>, <<"2">>}

\* C17: getCollectionHandle with a valid workspace handle returns Left
\* INVALID_COLLECTION_ID for the empty collectionID, Left COLLECTION_NOT_FOUND for
\* an index path that is not the path of a collection of the tree, and otherwise
\* Right with an ok handle carrying that collectionID and the collection's name;
\* it changes neither the tree nor the refs nor the registry.
C17_GetCollectionHandle ==
  \A collectionID \in CollectionIDsAsked :
    LET o == getCollectionHandle(getPersonalWorkspaceHandle, collectionID)
    IN  /\ o.state = state
        /\ o.handleRefData = handleRefData
        /\ o.issuedHandles = issuedHandles
        /\ IF collectionID = <<>> THEN o.ret = Left("INVALID_COLLECTION_ID")
           ELSE IF collectionID \notin collectionIDs(state)
           THEN o.ret = Left("COLLECTION_NOT_FOUND")
           ELSE o.ret = Right(Ok(CollectionData(providerID, "personal", collectionID,
                                                collectionAt(state, collectionID).name)))

\* getCollectionHandle has returned the handle of a nested collection, and the
\* caller holds it
C17_GetCollectionHandle_witness ==
  /\ succeeded("getCollectionHandle")
  /\ result.arg = <<"0", "/", "0">>
  /\ result.ret.value \in collectionHandles
  /\ result.ret.value.data.collectionID = result.arg
  /\ collectionAt(state, result.arg) # Null
  /\ result.ret.value.data.name = collectionAt(state, result.arg).name
  /\ getCollectionHandle(getPersonalWorkspaceHandle, <<"0", "/", "9">>).ret
       = Left("COLLECTION_NOT_FOUND")

\* C18: getWorkspaceHandle returns Left INVALID_WORKSPACE_ID for every workspaceID
\* other than "personal"; for "personal" it returns Right with an ok handle whose
\* providerID is this provider's and whose workspaceID is "personal", a handle
\* that passes isValidWorkspaceHandle for this provider.
C18_GetWorkspaceHandle ==
  /\ \A workspaceID \in WorkspaceIDInputs :
       IF workspaceID # "personal"
       THEN getWorkspaceHandle(workspaceID) = Left("INVALID_WORKSPACE_ID")
       ELSE /\ getWorkspaceHandle(workspaceID).tag = "Right"
            /\ ~notThisWorkspace(getWorkspaceHandle(workspaceID).value)
            /\ isValidWorkspaceHandle(getWorkspaceHandle(workspaceID).value,
                                      providerID, "personal")
  /\ result.op = "getWorkspaceHandle" =>
       /\ result.arg = "personal"
       /\ result.ret.tag = "Right"
       /\ result.ret.value.type = "ok"
       /\ result.ret.value.data.providerID = "PERSONAL_WORKSPACE_PROVIDER"
       /\ result.ret.value.data.workspaceID = "personal"
       /\ isValidWorkspaceHandle(result.ret.value, providerID, "personal")

\* getWorkspaceHandle("personal") has returned a valid handle while the handle the
\* holder had was written invalid
C18_GetWorkspaceHandle_witness ==
  /\ result.op = "getWorkspaceHandle"
  /\ result.arg = "personal"
  /\ result.ret.tag = "Right"
  /\ isValidWorkspaceHandle(result.ret.value, providerID, "personal")
  /\ notThisWorkspace(workspaceRef)

\* C19: every operation, for every input, ends by returning a tagged result, a
\* Left with an error code or a Right with a value, and never by throwing;
\* importRESTCollections with an empty list of collections among them.
C19_TaggedResults ==
  /\ result.ret.tag \in {"Left", "Right"}
  /\ \A collections \in ImportInputs :
       importRESTCollections(getPersonalWorkspaceHandle, collections).ret.tag
         \in {"Left", "Right"}

\* the handle is ok and names this provider and this workspace
owned(handle, provider, workspaceID) ==
  IF handle.type = "ok"
  THEN handle.data.providerID = provider /\ handle.data.workspaceID = workspaceID
  ELSE FALSE

ProviderIDInputs == {providerID, "OTHER_PROVIDER"}

\* C20: isValidWorkspaceHandle, isValidCollectionHandle and isValidRequestHandle
\* each return true if and only if the handle's current value has type "ok", its
\* data.providerID is the expected providerID and its data.workspaceID is the
\* expected workspaceID, for every handle a caller holds or can pass.
C20_ValidatorsCheckOwner ==
  \A provider \in ProviderIDInputs, workspaceID \in WorkspaceIDInputs :
    /\ \A w \in WorkspaceHandleInputs \cup {workspaceRef} :
         isValidWorkspaceHandle(w, provider, workspaceID)
           <=> owned(w, provider, workspaceID)
    /\ \A h \in CollectionHandleInputs :
         isValidCollectionHandle(h, provider, workspaceID)
           <=> owned(h, provider, workspaceID)
    /\ \A h \in RequestHandleRefs :
         isValidRequestHandle(h.value, provider, workspaceID)
           <=> owned(h.value, provider, workspaceID)

\* a caller holds a collection handle and two request handles, one valid and one
\* invalidated by a removal: the validators accept the first two and refuse the
\* third
C20_ValidatorsCheckOwner_witness ==
  /\ succeeded("removeRESTRequest")
  /\ \E h \in collectionHandles : isValidCollectionHandle(h, providerID, "personal")
  /\ \E i, j \in DOMAIN handleRefData :
       /\ isValidRequestHandle(handleRefData[i], providerID, "personal")
       /\ ~isValidRequestHandle(handleRefData[i], providerID, "team")
       /\ handleRefData[j] = Invalid("REQUEST_INVALIDATED")
       /\ ~isValidRequestHandle(handleRefData[j], providerID, "personal")

\* C21: removeRESTCollection of the collection at index path C does not invalidate
\* a valid registered request handle whose request is neither in C nor in a
\* collection nested under C.
C21_RemoveCollectionSparesOtherHandles ==
  [][( /\ called("removeRESTCollection")
       /\ intact(state)
       /\ uidsUnder(state, result'.handle.data.collectionID) # {} ) =>
       \A i \in DOMAIN handleRefData :
         ( /\ soundHandle(i)
           /\ handleRefData[i].data.request.uid
                \notin uidsUnder(state, result'.handle.data.collectionID) )
         => handleRefData'[i].type = "ok"]_vars

\* the cell keeps its validity and its IDs through the step
keepsIDs(i) ==
  /\ handleRefData'[i].type = handleRefData[i].type
  /\ handleRefData'[i].type = "ok" =>
       /\ handleRefData'[i].data.requestID = handleRefData[i].data.requestID
       /\ handleRefData'[i].data.collectionID = handleRefData[i].data.collectionID

\* C22: moveRESTRequest of the request at index p of a source collection leaves
\* every registered handle of a source request at an index below p, and of a
\* request in another collection, with its requestID, collectionID and validity
\* (stated for a move into another collection).
C22_MoveRequestLeavesEarlierHandles ==
  [][( /\ called("moveRESTRequest")
       /\ intact(state)
       /\ resolvesToOwnRequest(state, result'.handle.value)
       /\ result'.arg # result'.handle.value.data.collectionID ) =>
       LET source == collectionIDOf(result'.handle.value.data.requestID)
           p == indexOf(result'.handle.value.data.requestID)
       IN  \A i \in DOMAIN handleRefData :
             ( /\ soundHandle(i)
               /\ \/ collectionIDOf(handleRefData[i].data.requestID) # source
                  \/ indexOf(handleRefData[i].data.requestID) < p )
             => keepsIDs(i)]_vars

\* C23: in every reachable state no two registered refs that read ok carry the
\* same providerID, workspaceID, collectionID and requestID.
C23_OneValidCellPerKey ==
  \A j, k \in DOMAIN issuedHandles :
    ( /\ j # k
      /\ handleRefData[issuedHandles[j]].type = "ok"
      /\ handleRefData[issuedHandles[k]].type = "ok" )
    => \/ handleRefData[issuedHandles[j]].data.providerID
            # handleRefData[issuedHandles[k]].data.providerID
       \/ handleRefData[issuedHandles[j]].data.workspaceID
            # handleRefData[issuedHandles[k]].data.workspaceID
       \/ handleRefData[issuedHandles[j]].data.collectionID
            # handleRefData[issuedHandles[k]].data.collectionID
       \/ handleRefData[issuedHandles[j]].data.requestID
            # handleRefData[issuedHandles[k]].data.requestID

\* C24: invalidation is permanent: a handleRefData ref that reads invalid is left
\* as it is by every later call; no operation sets it back to ok or rewrites it.
C24_InvalidationIsPermanent ==
  [][\A i \in DOMAIN handleRefData :
       handleRefData[i].type = "invalid"
         => /\ i \in DOMAIN handleRefData'
            /\ handleRefData'[i] = handleRefData[i]]_vars

\* a ref was invalidated by a removal, and later calls that rewrite refs, an
\* update or a move through another handle, have left it invalid
C24_InvalidationIsPermanent_witness ==
  /\ result.op \in {"updateRESTRequest", "moveRESTRequest"}
  /\ result.ret.tag = "Right"
  /\ \E i, j \in DOMAIN issuedHandles :
       /\ handleRefData[issuedHandles[i]] = Invalid("REQUEST_INVALIDATED")
       /\ handleRefData[issuedHandles[j]].type = "ok"

\* the handle passes validation and no registered ref reads ok with its requestID
unregistered(h) ==
  /\ ~notThisWorkspace(h.value)
  /\ \A k \in DOMAIN issuedHandles :
       handleRefData[issuedHandles[k]].type = "ok"
         => handleRefData[issuedHandles[k]].data.requestID # h.value.data.requestID

\* C25: moveRESTRequest with a request handle that passes validation but whose
\* requestID is that of no valid registered handle returns Left
\* INVALID_REQUEST_HANDLE and leaves the tree and every ref as they are.
C25_MoveOfUnregisteredRefused ==
  \A h \in RequestHandleRefs :
    unregistered(h) =>
      \A dest \in DestinationInputs :
        moveRESTRequest(h, dest) = Returns(Left("INVALID_REQUEST_HANDLE"))

\* a second handle got for a request stayed valid with the old requestID when
\* the registered one was moved away: the request it names is in the tree, a
\* move through it is refused
C25_MoveOfUnregisteredRefused_witness ==
  /\ succeeded("moveRESTRequest")
  /\ \E i \in DOMAIN handleRefData :
       /\ ~isIssued(i)
       /\ unregistered(RefHandle(i, handleRefData[i]))
       /\ requestAt(state, handleRefData[i].data.requestID) # Undefined
       /\ \E dest \in collectionIDs(state) :
            moveRESTRequest(RefHandle(i, handleRefData[i]), dest).ret
              = Left("INVALID_REQUEST_HANDLE")

\* the names an update gives a request: the one it has, and another
UpdatedNames == RequestNames \cup {"s"}

\* the collections of a tree without their requests' content: names, nesting and
\* the number of requests of each
RECURSIVE shapeOf(_)
shapeOf(collections) ==
  [i \in DOMAIN collections |->
     IF collections[i] = Undefined THEN Undefined
     ELSE [uid |-> collections[i].uid, name |-> collections[i].name,
           requests |-> Len(collections[i].requests),
           folders |-> shapeOf(collections[i].folders)]]

itemsOf(content, type) == SelectSeq(content, LAMBDA item : item.type = type)

\* C29: the children view of a valid collection handle lists the collection's
\* child folders in order and then its requests in order; the folder at index i
\* has collectionID parentID/i, the request at index j requestID parentID/j; in
\* each non-empty group the last item and no other has isLastItem true; the
\* content is empty when the handle's path resolves to no collection.
C29_ChildrenView ==
  \A h \in CollectionHandleInputs :
    ( ~notThisWorkspace(h) /\ intact(state) ) =>
      LET view == getRESTCollectionChildrenView(h)
          parentID == h.data.collectionID
          item == collectionAt(state, parentID)
          folders == itemsOf(view.data.content, "collection")
          requests == itemsOf(view.data.content, "request")
      IN  /\ view.type = "ok"
          /\ item = Null => view.data.content = <<>>
          /\ item # Null =>
               /\ view.data.content = folders \o requests
               /\ Len(folders) = Len(item.folders)
               /\ Len(requests) = Len(item.requests)
               /\ \A i \in DOMAIN folders :
                    /\ folders[i].collectionID = childID(parentID, i - 1)
                    /\ folders[i].name = item.folders[i].name
                    /\ folders[i].isLastItem <=> (i = Len(folders))
               /\ \A j \in DOMAIN requests :
                    /\ requests[j].requestID = childID(parentID, j - 1)
                    /\ requests[j].request = item.requests[j]
                    /\ requests[j].isLastItem <=> (j = Len(requests))

\* the collection handles of ViewHandleInputs that address a collection of the tree
addressing ==
  { h \in ViewHandleInputs : collectionAt(state, h.data.collectionID) # Null }

\* the collection on the path of a collection handle, i collections from the root
onPath(h, i) ==
  navigateToFolderWithIndexPath(state, SubSeq(indexPathOf(h.data.collectionID), 1, i))

\* the index path of that collection
pathID(h, i) == joinPath(SubSeq(indexPathOf(h.data.collectionID), 1, i))

\* how many collections the path of a collection handle has
levels(h) == 1..Len(indexPathOf(h.data.collectionID))

\* C27: the auth and headers view of a valid collection handle reports as
\* inherited auth the auth of the deepest collection on the path from the root
\* collection to the addressed one whose authType is not "inherit", with parentID
\* that collection's index path; when every collection on the path has authType
\* "inherit" it reports authType "none" with the root collection's parentID.
C27_InheritedAuthIsDeepestSet ==
  \A h \in addressing :
    LET view == getRESTCollectionLevelAuthHeadersView(h)
        set == { i \in levels(h) : onPath(h, i).auth.authType # "inherit" }
    IN  /\ view.type = "ok"
        /\ IF set = {}
           THEN /\ view.data.auth.inheritedAuth.authType = "none"
                /\ view.data.auth.parentID = pathID(h, 1)
           ELSE LET deepest == CHOOSE i \in set : \A j \in set : j <= i
                IN  /\ view.data.auth.inheritedAuth = onPath(h, deepest).auth
                    /\ view.data.auth.parentID = pathID(h, deepest)

\* the view of a collection three deep was read, the auth set by its parent and
\* not by itself
C27_InheritedAuthIsDeepestSet_witness ==
  /\ result.op = "getRESTCollectionLevelAuthHeadersView"
  /\ result.handle \in addressing
  /\ levels(result.handle) = 1..3
  /\ onPath(result.handle, 3).auth.authType = "inherit"
  /\ onPath(result.handle, 2).auth.authType = "bearer"
  /\ onPath(result.handle, 1).auth.authType = "none"
  /\ result.ret.value.data.auth.parentID = pathID(result.handle, 2)

\* the levels of the path of a collection handle that have an active header of a key
activeAt(h, key) ==
  { i \in levels(h) :
      \E k \in DOMAIN onPath(h, i).headers :
        onPath(h, i).headers[k].active /\ onPath(h, i).headers[k].key = key }

\* C28: the auth and headers view lists inherited headers so that only active
\* headers of collections on the path from the root to the addressed collection
\* appear, each key has at most one entry, and the entry of a key that several
\* levels define as an active header is a header of the deepest of these
\* collections, with parentID that collection's index path.
C28_InheritedHeadersDeepestPerKey ==
  \A h \in addressing :
    LET view == getRESTCollectionLevelAuthHeadersView(h)
        headers == view.data.headers
    IN  /\ view.type = "ok"
        /\ \A e \in DOMAIN headers :
             /\ headers[e].inheritedHeader.active
             /\ \E i \in levels(h) :
                  /\ headers[e].parentID = pathID(h, i)
                  /\ headers[e].inheritedHeader \in SeqToSet(onPath(h, i).headers)
                  /\ \A j \in activeAt(h, headers[e].inheritedHeader.key) : j <= i
        /\ \A e, f \in DOMAIN headers :
             headers[e].inheritedHeader.key = headers[f].inheritedHeader.key => e = f

\* the view of a collection three deep was read, the key k active in the root
\* collection and in its child, and the entry of k is the child's
C28_InheritedHeadersDeepestPerKey_witness ==
  /\ result.op = "getRESTCollectionLevelAuthHeadersView"
  /\ result.handle \in addressing
  /\ levels(result.handle) = 1..3
  /\ activeAt(result.handle, "k") = {1, 2}
  /\ \E e \in DOMAIN result.ret.value.data.headers :
       /\ result.ret.value.data.headers[e].inheritedHeader.key = "k"
       /\ result.ret.value.data.headers[e].parentID = pathID(result.handle, 2)

====
